---- MODULE Spec2Model ----
(***************************************************************************)
(* A model of the storage core of always-memo (electron/storage.ts) and of *)
(* the memo-image retrieval handler of electron/main.ts.                   *)
(*                                                                         *)
(* Strings that the code builds by concatenation (paths, identifiers,      *)
(* locators) are sequences of pieces, each piece a character or a fixed    *)
(* literal such as ".png".  File contents of memo.json are sequences of    *)
(* JSON tokens, so that a partly written file is a proper prefix of the    *)
(* serialization and JSON.parse is a parser that can fail.                 *)
(***************************************************************************)
EXTENDS Integers, Sequences, FiniteSets, TLC

(***************************************************************************)
(* Bounds of the model.                                                    *)
(***************************************************************************)
MaxClock == 1       \* the millisecond clock runs over 0..MaxClock
MaxOps == 3         \* storage operations started in one behaviour
MaxEnvWrites == 2   \* times the environment rewrites memo.json
WriteChunks == 2    \* write(2) calls one writeFile is split into
MaxUrlLen == 4      \* pieces of a request locator
MaxIdLen == 3       \* pieces of an identifier given to imagePathForId
MaxWidthUnits == 39 \* widths given to normalizeImageDimensions reach 256 * MaxWidthUnits
MaxHeight == 117    \* heights given to normalizeImageDimensions reach MaxHeight
MaxUpdates == 3     \* editor updates in one behaviour
TickMs == 250       \* the renderer's clock advances in steps of TickMs
MaxAppClock == 1500 \* the renderer's clock runs over 0..MaxAppClock

(***************************************************************************)
(* JavaScript values: objects keep their properties in insertion order.    *)
(***************************************************************************)
JsUndefined == [lit |-> "undefined"]
JsNull == [lit |-> "null"]
JsStr(s) == [str |-> s]
JsNum(n) == [num |-> n]
JsArr(items) == [arr |-> items]
JsObj(kv) == [obj |-> kv]

IsObj(v) == "obj" \in DOMAIN v
IsArr(v) == "arr" \in DOMAIN v
IsStr(v) == "str" \in DOMAIN v
IsNum(v) == "num" \in DOMAIN v

\* value.key : the property of an object, undefined when there is none
Get(v, key) ==
  IF IsObj(v) /\ \E i \in 1..Len(v.obj) : v.obj[i][1] = key
    THEN v.obj[CHOOSE i \in 1..Len(v.obj) : v.obj[i][1] = key][2]
    ELSE JsUndefined

\* obj[key] = val : replaces in place or appends
Put(kv, key, val) ==
  IF \E i \in 1..Len(kv) : kv[i][1] = key
    THEN [i \in 1..Len(kv) |-> IF kv[i][1] = key THEN <<key, val>> ELSE kv[i]]
    ELSE Append(kv, <<key, val>>)

\* !!v
Truthy(v) ==
  /\ v \notin {JsUndefined, JsNull, [lit |-> "false"]}
  /\ v # JsNum(0)
  /\ v # JsStr("")

(***************************************************************************)
(* JSON text as a token sequence.                                          *)
(***************************************************************************)
P(c) == [p |-> c]
TokStr(s) == [s |-> s]
TokNum(n) == [n |-> n]
TokLit(l) == [lit |-> l]
TokBad(w) == [bad |-> w]        \* text that is no JSON token
TokNul == [bad |-> "NUL"]      \* a zero byte of a hole in a file

RECURSIVE JSONStringify(_)
RECURSIVE StringifyMembers(_, _)
RECURSIVE StringifyElements(_, _)

RECURSIVE StringifyMembers_DropNull(_, _)
\* variant: null properties are left out like undefined ones
StringifyMembers_DropNull(kv, first) ==
  IF kv = <<>> THEN <<>>
  ELSE LET k == Head(kv)[1]
           v == Head(kv)[2]
       IN IF v = JsUndefined \/ v = JsNull
            THEN StringifyMembers_DropNull(Tail(kv), first)
            ELSE (IF first THEN <<>> ELSE <<P(",")>>)
                 \o <<TokStr(k), P(":")>> \o JSONStringify(v)
                 \o StringifyMembers_DropNull(Tail(kv), FALSE)

\* the properties of an object in order, undefined ones left out
StringifyMembers(kv, first) ==
  IF kv = <<>> THEN <<>>
  ELSE LET k == Head(kv)[1]
           v == Head(kv)[2]
       IN IF v = JsUndefined
            THEN StringifyMembers(Tail(kv), first)
            ELSE (IF first THEN <<>> ELSE <<P(",")>>)
                 \o <<TokStr(k), P(":")>> \o JSONStringify(v)
                 \o StringifyMembers(Tail(kv), FALSE)

StringifyElements(items, first) ==
  IF items = <<>> THEN <<>>
  ELSE (IF first THEN <<>> ELSE <<P(",")>>)
       \o JSONStringify(IF Head(items) = JsUndefined THEN JsNull ELSE Head(items))
       \o StringifyElements(Tail(items), FALSE)

JSONStringify(v) ==
  IF IsObj(v) THEN <<P("{")>> \o StringifyMembers(v.obj, TRUE) \o <<P("}")>>
  ELSE IF IsArr(v) THEN <<P("[")>> \o StringifyElements(v.arr, TRUE) \o <<P("]")>>
  ELSE IF IsStr(v) THEN <<TokStr(v.str)>>
  ELSE IF IsNum(v) THEN <<TokNum(v.num)>>
  ELSE <<TokLit(v.lit)>>

ParseFail == [ok |-> FALSE, val |-> JsUndefined, next |-> 0]
ParseOk(v, n) == [ok |-> TRUE, val |-> v, next |-> n]

RECURSIVE ParseValue(_, _)
RECURSIVE ParseMembers(_, _, _)
RECURSIVE ParseElements(_, _, _)

ParseMembers(t, i, acc) ==
  IF i + 1 > Len(t) \/ "s" \notin DOMAIN t[i] \/ t[i + 1] # P(":") THEN ParseFail
  ELSE LET r == ParseValue(t, i + 2) IN
       IF ~r.ok \/ r.next > Len(t) THEN ParseFail
       ELSE IF t[r.next] = P(",") THEN ParseMembers(t, r.next + 1, Put(acc, t[i].s, r.val))
       ELSE IF t[r.next] = P("}") THEN ParseOk(JsObj(Put(acc, t[i].s, r.val)), r.next + 1)
       ELSE ParseFail

ParseElements(t, i, acc) ==
  LET r == ParseValue(t, i) IN
  IF ~r.ok \/ r.next > Len(t) THEN ParseFail
  ELSE IF t[r.next] = P(",") THEN ParseElements(t, r.next + 1, Append(acc, r.val))
  ELSE IF t[r.next] = P("]") THEN ParseOk(JsArr(Append(acc, r.val)), r.next + 1)
  ELSE ParseFail

ParseValue(t, i) ==
  IF i > Len(t) THEN ParseFail
  ELSE LET tok == t[i] IN
    IF "s" \in DOMAIN tok THEN ParseOk(JsStr(tok.s), i + 1)
    ELSE IF "n" \in DOMAIN tok THEN ParseOk(JsNum(tok.n), i + 1)
    ELSE IF "lit" \in DOMAIN tok THEN
      (IF tok.lit \in {"null", "true", "false"} THEN ParseOk([lit |-> tok.lit], i + 1)
       ELSE ParseFail)
    ELSE IF tok = P("{") THEN
      (IF i + 1 <= Len(t) /\ t[i + 1] = P("}") THEN ParseOk(JsObj(<<>>), i + 2)
       ELSE ParseMembers(t, i + 1, <<>>))
    ELSE IF tok = P("[") THEN
      (IF i + 1 <= Len(t) /\ t[i + 1] = P("]") THEN ParseOk(JsArr(<<>>), i + 2)
       ELSE ParseElements(t, i + 1, <<>>))
    ELSE ParseFail

\* JSON.parse: the whole text must be one value; ok = FALSE is a SyntaxError
JSONParse(t) ==
  LET r == ParseValue(t, 1) IN
  IF r.ok /\ r.next = Len(t) + 1 THEN [ok |-> TRUE, val |-> r.val]
  ELSE [ok |-> FALSE, val |-> JsUndefined]

(***************************************************************************)
(* Strings built by concatenation are sequences of pieces.  node:path      *)
(* works on "/"-separated segments and resolves "." and ".." segments.     *)
(***************************************************************************)
Sep == "/"
Dot == <<".">>
DotDot == <<".", ".">>

RECURSIVE SplitPath(_, _, _)
\* the segments of s between separators; cur is the segment being read
SplitPath(s, cur, acc) ==
  IF s = <<>> THEN Append(acc, cur)
  ELSE IF Head(s) = Sep THEN SplitPath(Tail(s), <<>>, Append(acc, cur))
  ELSE SplitPath(Tail(s), Append(cur, Head(s)), acc)

RECURSIVE ResolveSegments(_, _)
ResolveSegments(segs, acc) ==
  IF segs = <<>> THEN acc
  ELSE LET g == Head(segs) IN
    IF g = <<>> \/ g = Dot THEN ResolveSegments(Tail(segs), acc)
    ELSE IF g = DotDot THEN
      (IF acc # <<>> /\ acc[Len(acc)] # DotDot
         THEN ResolveSegments(Tail(segs), SubSeq(acc, 1, Len(acc) - 1))
         ELSE ResolveSegments(Tail(segs), Append(acc, g)))
    ELSE ResolveSegments(Tail(segs), Append(acc, g))

RECURSIVE JoinSegments(_)
JoinSegments(segs) ==
  IF segs = <<>> THEN <<>>
  ELSE IF Len(segs) = 1 THEN segs[1]
  ELSE segs[1] \o <<Sep>> \o JoinSegments(Tail(segs))

\* the resolved segments of a relative path
PathSegments(p) == ResolveSegments(SplitPath(p, <<>>, <<>>), <<>>)

\* path.join(a, b)
PathJoin(a, b) ==
  LET segs == PathSegments(a \o <<Sep>> \o b)
  IN IF segs = <<>> THEN Dot ELSE JoinSegments(segs)

\* path.dirname(p)
PathDirname(p) ==
  LET segs == SplitPath(p, <<>>, <<>>)
  IN IF Len(segs) <= 1 THEN Dot ELSE JoinSegments(SubSeq(segs, 1, Len(segs) - 1))

(***************************************************************************)
(* electron/storage.ts: constants and pure functions.                      *)
(***************************************************************************)
MEMO_FILENAME == <<"memo.json">>
IMAGES_DIRNAME == <<"images">>
HexChars == {"0", "1", "2", "3", "4", "5", "6", "7", "8", "9",
             "a", "b", "c", "d", "e", "f", "A", "B", "C", "D", "E", "F"}
\* variant: the class with a dot, /^[a-f0-9.-]+$/i
IMAGE_ID_PATTERN_WithDot == HexChars \cup {"-", "."}
\* the character class of /^[a-f0-9-]+$/i
IMAGE_ID_PATTERN == HexChars \cup {"-"}

\* app.getPath('userData')
userDataPath == <<"userData">>

createStoragePaths(root) ==
  [memoFilePath |-> PathJoin(root, MEMO_FILENAME),
   imagesDirPath |-> PathJoin(root, IMAGES_DIRNAME)]

storagePaths == createStoragePaths(userDataPath)

\* `${n}` for a millisecond count n
DecimalString(n) == <<"0", "1", "2", "3", "4", "5", "6", "7", "8", "9">>[n + 1]

\* new Date(n).toISOString()
ToISOString(n) ==
  <<"1970-01-01T00:00:00.000Z", "1970-01-01T00:00:00.001Z",
    "1970-01-01T00:00:00.002Z", "1970-01-01T00:00:00.003Z",
    "1970-01-01T00:00:00.004Z", "1970-01-01T00:00:00.005Z",
    "1970-01-01T00:00:00.006Z", "1970-01-01T00:00:00.007Z",
    "1970-01-01T00:00:00.008Z", "1970-01-01T00:00:00.009Z">>[n + 1]

nowIso(clock) == ToISOString(clock)

\* variant: a document with no paragraph
defaultDoc_NoParagraph ==
  JsObj(<< <<"type", JsStr("doc")>>, <<"content", JsArr(<<>>)>> >>)

defaultDoc ==
  JsObj(<< <<"type", JsStr("doc")>>,
           <<"content", JsArr(<< JsObj(<< <<"type", JsStr("paragraph")>> >>) >>)>> >>)

MemoRecordOf(updatedAt, doc) ==
  JsObj(<< <<"version", JsNum(1)>>, <<"updatedAt", JsStr(updatedAt)>>, <<"doc", doc>> >>)

fallbackRecord(clock) == MemoRecordOf(nowIso(clock), defaultDoc)

\* variant: the doc field is not looked at
isMemoRecord_NoDocCheck(value) ==
  IF ~Truthy(value) \/ ~(IsObj(value) \/ IsArr(value)) THEN FALSE
  ELSE /\ Get(value, "version") = JsNum(1)
       /\ IsStr(Get(value, "updatedAt"))

isMemoRecord(value) ==
  IF ~Truthy(value) \/ ~(IsObj(value) \/ IsArr(value)) THEN FALSE
  ELSE /\ Get(value, "version") = JsNum(1)
       /\ IsStr(Get(value, "updatedAt"))
       /\ Truthy(Get(value, "doc"))

\* variant: the pattern without its anchors, /[a-f0-9-]+/i
isValidImageId_Unanchored(id) ==
  \E i \in 1..Len(id) : id[i] \in HexChars \cup {"-"}

isValidImageId(id) ==
  /\ id # <<>>
  /\ \A i \in 1..Len(id) : id[i] \in IMAGE_ID_PATTERN

\* variant: one file name for every image
ImageFileName_Fixed(id) == <<"image", ".png">>

ImageFileName(id) == id \o <<".png">>

\* the path returned, or ok = FALSE for the thrown Error('Invalid image id')
imagePathForId(paths, id) ==
  IF ~isValidImageId(id) THEN [ok |-> FALSE, path |-> <<>>]
  ELSE [ok |-> TRUE, path |-> PathJoin(paths.imagesDirPath, ImageFileName(id))]

tempPathOf(paths) == paths.memoFilePath \o <<".tmp">>
backupPathOf(paths, clock) == paths.memoFilePath \o <<".corrupt-", DecimalString(clock)>>

(***************************************************************************)
(* The documents the editor hands to saveMemo (MemoDoc = JSONContent, an   *)
(* object tree) and the invalid contents the environment may leave at the  *)
(* document path.                                                          *)
(***************************************************************************)
DocHello ==
  JsObj(<< <<"type", JsStr("doc")>>,
           <<"content", JsArr(<<
              JsObj(<< <<"type", JsStr("paragraph")>>,
                       <<"content", JsArr(<< JsObj(<< <<"type", JsStr("text")>>,
                                                      <<"text", JsStr("hello")>> >>) >>)>> >>),
              JsObj(<< <<"type", JsStr("image")>>,
                       <<"attrs", JsObj(<< <<"src", JsStr("memo-image://a")>>,
                                           <<"alt", JsNull>>,
                                           <<"width", JsNum(640)>> >>)>> >>) >>)>> >>)

Docs == {defaultDoc, DocHello}

\* '{broken-json' (tests/storage.test.ts)
BrokenJson == <<P("{"), TokBad("broken-json")>>
\* a record of another version: parses, fails the shape check
WrongVersion ==
  JSONStringify(JsObj(<< <<"version", JsNum(2)>>,
                         <<"updatedAt", JsStr(ToISOString(0))>>,
                         <<"doc", defaultDoc>> >>))

CorruptContents == {BrokenJson, WrongVersion}

\* records that parse and lack a field
NoVersion ==
  JSONStringify(JsObj(<< <<"updatedAt", JsStr(ToISOString(0))>>, <<"doc", defaultDoc>> >>))
NoUpdatedAt ==
  JSONStringify(JsObj(<< <<"version", JsNum(1)>>, <<"doc", defaultDoc>> >>))
NoDoc ==
  JSONStringify(JsObj(<< <<"version", JsNum(1)>>, <<"updatedAt", JsStr(ToISOString(0))>> >>))

ShapeInvalidContents == {WrongVersion, NoVersion, NoUpdatedAt, NoDoc}

\* a valid record left by an earlier run: a time stamp no clock of the model
\* reaches, and a field this version does not know
StoredRecord ==
  JsObj(<< <<"version", JsNum(1)>>, <<"updatedAt", JsStr(ToISOString(9))>>,
           <<"doc", DocHello>>, <<"pinned", [lit |-> "true"]>> >>)

\* what memo.json may hold when the program finds it
FileContents == {BrokenJson, JSONStringify(StoredRecord)} \cup ShapeInvalidContents

(***************************************************************************)
(* State.                                                                  *)
(***************************************************************************)
VARIABLES
  fs,           \* the files of the storage root: path |-> content
  dirs,         \* the directories that exist
  now,          \* the millisecond clock read by Date.now() and new Date()
  savers,       \* the saveMemo calls
  loaders,      \* the loadMemo calls
  ops,          \* operations started so far
  envWrites,    \* rewrites of memo.json by the environment so far
  quarantined,  \* history: the contents loadMemo has moved to a quarantine name
  lastSaved,    \* history: the last successful save, while nothing ran since
  imgSaver,     \* the saveImage calls
  usedIds,      \* the identifiers randomUUID has returned
  req,          \* the memo-image request being handled
  pathCall,     \* the last direct call of imagePathForId and its result
  normCall,     \* the last direct call of normalizeImageDimensions and its result
  app,          \* the renderer's App component: editor, debounce timer, requests
  upd           \* the update check: its position, latestUpdateStatus, what was sent

memoVars == <<savers, loaders, envWrites, quarantined, lastSaved>>
imageVars == <<imgSaver, usedIds, req, pathCall, normCall>>
vars == <<fs, dirs, now, ops, memoVars, imageVars, app, upd>>

\* the saveMemo and loadMemo calls that may be in flight together
Savers == {1, 2}
Loaders == {1}
ImgSavers == {1, 2}

MemoPath == storagePaths.memoFilePath
TempPath == tempPathOf(storagePaths)
RootDir == PathDirname(storagePaths.memoFilePath)
ImagesDir == storagePaths.imagesDirPath

NoFd == <<>>
NoFile == [exists |-> FALSE, data |-> <<>>]
FileAt(f, p) == IF p \in DOMAIN f THEN [exists |-> TRUE, data |-> f[p]] ELSE NoFile

NoSave == [valid |-> FALSE, doc |-> JsNull, updatedAt |-> ""]
NoResult == [kind |-> "none", value |-> JsNull]
ErrorResult(code) == [kind |-> "error", value |-> JsStr(code)]
ValueResult(v) == [kind |-> "value", value |-> v]

IdleSaver ==
  [pc |-> "idle", doc |-> JsNull, payload |-> JsNull, buf |-> <<>>, off |-> 0,
   fd |-> NoFd, before |-> NoFile, res |-> NoResult]

IdleLoader ==
  [pc |-> "idle", outcome |-> "none", raw |-> NoFile, backupPath |-> <<>>,
   fallback |-> JsNull, res |-> NoResult, dirBefore |-> {}, sawSave |-> NoSave,
   moved |-> FALSE]

\* writeFile / the environment: the file at p holds c
FsWrite(f, p, c) == [q \in DOMAIN f \cup {p} |-> IF q = p THEN c ELSE f[q]]

\* variant: an existing target is kept, as link(2) or COPYFILE_EXCL would
FsRename_NoReplace(f, from, to) ==
  IF to \in DOMAIN f THEN f
  ELSE [q \in (DOMAIN f \ {from}) \cup {to} |-> IF q = to THEN f[from] ELSE f[q]]

\* rename(from, to): to names what from named, replacing what to named
FsRename(f, from, to) ==
  [q \in (DOMAIN f \ {from}) \cup {to} |-> IF q = to THEN f[from] ELSE f[q]]

\* an open descriptor follows its file through a rename; NoFd once unlinked
FdAfterRename(fd, from, to) ==
  IF fd = NoFd THEN NoFd
  ELSE IF fd = from THEN to
  ELSE IF fd = to THEN NoFd
  ELSE fd

SaversAfterRename(sv, from, to) ==
  [s \in DOMAIN sv |-> [sv[s] EXCEPT !.fd = FdAfterRename(sv[s].fd, from, to)]]

\* a write of chunk at offset off of a file holding content
WriteAt(content, off, chunk) ==
  LET padded == IF Len(content) < off
                  THEN content \o [i \in 1..(off - Len(content)) |-> TokNul]
                  ELSE content
  IN SubSeq(padded, 1, off) \o chunk
     \o SubSeq(padded, off + Len(chunk) + 1, Len(padded))

ChunkLen(buf) == (Len(buf) + WriteChunks - 1) \div WriteChunks

SaveBusy(s) == savers[s].pc \notin {"idle", "done", "failed"}
LoadBusy(l) == loaders[l].pc \notin {"idle", "done", "failed"}
AnySaveActive == \E s \in Savers : savers[s].pc # "idle"
AnyLoadActive == \E l \in Loaders : loaders[l].pc # "idle"
AllIdle == ~AnySaveActive /\ ~AnyLoadActive

IdleImgSaver ==
  [pc |-> "idle", buffer |-> <<>>, width |-> 0, height |-> 0, id |-> <<>>,
   imagePath |-> <<>>, res |-> NoResult]

IdleReq ==
  [pc |-> "idle", url |-> <<>>, imageId |-> <<>>, imagePath |-> <<>>,
   fsAtRead |-> <<>>, status |-> 0, body |-> <<>>, contentType |-> ""]

NoPathCall == [called |-> FALSE, id |-> <<>>, res |-> [ok |-> FALSE, path |-> <<>>]]

NoNormCall == [called |-> FALSE, width |-> 0, height |-> 0, res |-> [width |-> 0, height |-> 0]]

\* the App component before its effect has run: the editor holds the content
\* given to useEditor, both refs are null
InitialApp ==
  [mounted |-> FALSE, disposed |-> FALSE,
   editorDoc |-> defaultDoc,    \* the editor's document
   lastDoc |-> JsNull,          \* lastDoc.current
   saveTimer |-> 0,             \* saveTimer.current: a timer id, 0 for null
   timers |-> {},               \* the timers set and neither fired nor cleared
   nextTimer |-> 1,
   clock |-> 0,
   load |-> "idle",             \* the call of window.memo.loadMemo()
   loaded |-> JsNull,           \* the doc of the record it returned
   inflight |-> 0,              \* saveMemo requests not yet settled
   updates |-> 0,               \* history: editor updates so far
   lastUpdateAt |-> 0,          \* history: the time of the last one
   sent |-> <<>>]               \* history: the saveMemo requests issued

\* {state, currentVersion, latestVersion?, releaseUrl?, message?}
UpdateStatusPayload(state, currentVersion, latestVersion, releaseUrl, message) ==
  [state |-> state, currentVersion |-> currentVersion, latestVersion |-> latestVersion,
   releaseUrl |-> releaseUrl, message |-> message]

\* the main process once loaded: latestUpdateStatus is idle, nothing requested
InitialUpdate(isPackaged, version) ==
  [pc |-> "start", isPackaged |-> isPackaged, version |-> version,
   latestUpdateStatus |->
     UpdateStatusPayload("idle", version, JsUndefined, JsUndefined, JsUndefined),
   sent |-> <<>>, requests |-> 0]

DevVersion == <<"1", ".", "2", ".", "3">>

InitStorage ==
  /\ fs = <<>>
  /\ dirs = {}
  /\ now = 0
  /\ savers = [s \in Savers |-> IdleSaver]
  /\ loaders = [l \in Loaders |-> IdleLoader]
  /\ ops = 0
  /\ envWrites = 0
  /\ quarantined = {}
  /\ lastSaved = NoSave
  /\ imgSaver = [k \in ImgSavers |-> IdleImgSaver]
  /\ usedIds = {}
  /\ req = IdleReq
  /\ pathCall = NoPathCall
  /\ normCall = NoNormCall
  /\ app = InitialApp

\* a development build, where the update check is disabled
Init ==
  /\ InitStorage
  /\ upd = InitialUpdate(FALSE, DevVersion)

(***************************************************************************)
(* ensureStorageDirs: two awaited mkdir(..., {recursive: true}) calls.     *)
(***************************************************************************)
MkdirRecursive(d, p) == d \cup ({p, PathDirname(p)} \ {Dot})

(***************************************************************************)
(* saveMemo.                                                               *)
(***************************************************************************)
SaveCall(s, d) ==
  /\ savers[s].pc = "idle"
  /\ ops < MaxOps
  /\ savers' = [savers EXCEPT ![s] =
        [IdleSaver EXCEPT !.pc = "mkdirRoot", !.doc = d, !.before = FileAt(fs, MemoPath)]]
  /\ ops' = ops + 1
  /\ lastSaved' = NoSave
  /\ UNCHANGED <<fs, dirs, now, loaders, envWrites, quarantined, imageVars, app, upd>>

SaveMkdirRoot(s) ==
  /\ savers[s].pc = "mkdirRoot"
  /\ dirs' = MkdirRecursive(dirs, RootDir)
  /\ savers' = [savers EXCEPT ![s].pc = "mkdirImages"]
  /\ UNCHANGED <<fs, now, loaders, ops, envWrites, quarantined, lastSaved, imageVars, app, upd>>

\* variant: ensureStorageDirs creates the root directory only
SaveMkdirImages_Skip(s) ==
  /\ savers[s].pc = "mkdirImages"
  /\ dirs' = dirs
  /\ LET payload == MemoRecordOf(nowIso(now), savers[s].doc) IN
     savers' = [savers EXCEPT ![s].pc = "open", ![s].payload = payload,
                              ![s].buf = JSONStringify(payload)]
  /\ UNCHANGED <<fs, now, loaders, ops, envWrites, quarantined, lastSaved, imageVars, app, upd>>

\* the second mkdir resolves; the payload is built and writeFile is called
SaveMkdirImages(s) ==
  /\ savers[s].pc = "mkdirImages"
  /\ dirs' = MkdirRecursive(dirs, ImagesDir)
  /\ LET payload == MemoRecordOf(nowIso(now), savers[s].doc) IN
     savers' = [savers EXCEPT ![s].pc = "open", ![s].payload = payload,
                              ![s].buf = JSONStringify(payload)]
  /\ UNCHANGED <<fs, now, loaders, ops, envWrites, quarantined, lastSaved, imageVars, app, upd>>

\* variant: the record is written straight to the document path
SaveStagePath_InPlace == MemoPath

\* the path saveMemo stages the record at
SaveStagePath == TempPath

\* writeFile opens the staging file with flag 'w': created or truncated
SaveOpen(s) ==
  /\ savers[s].pc = "open"
  /\ IF PathDirname(SaveStagePath) \in dirs
       THEN /\ fs' = FsWrite(fs, SaveStagePath, <<>>)
            /\ savers' = [savers EXCEPT ![s].pc = "write", ![s].fd = SaveStagePath]
       ELSE /\ fs' = fs
            /\ savers' = [savers EXCEPT ![s].pc = "failed", ![s].res = ErrorResult("ENOENT")]
  /\ UNCHANGED <<dirs, now, loaders, ops, envWrites, quarantined, lastSaved, imageVars, app, upd>>

\* one write of writeFile through the open descriptor; the last one closes it
\* and calls rename
SaveWrite(s) ==
  /\ savers[s].pc = "write"
  /\ LET sv == savers[s]
         chunk == SubSeq(sv.buf, sv.off + 1,
                         IF sv.off + ChunkLen(sv.buf) < Len(sv.buf)
                           THEN sv.off + ChunkLen(sv.buf) ELSE Len(sv.buf))
         off2 == sv.off + Len(chunk)
     IN /\ fs' = IF sv.fd # NoFd THEN FsWrite(fs, sv.fd, WriteAt(fs[sv.fd], sv.off, chunk))
                 ELSE fs
        /\ savers' = IF off2 = Len(sv.buf)
                       THEN [savers EXCEPT ![s].pc = "rename", ![s].off = off2, ![s].fd = NoFd]
                       ELSE [savers EXCEPT ![s].off = off2]
  /\ UNCHANGED <<dirs, now, loaders, ops, envWrites, quarantined, lastSaved, imageVars, app, upd>>

\* rename(tempPath, memoFilePath), then the success response
\* variant: the response carries a timestamp taken when the rename completes
SaveRename_FreshStamp(s) ==
  /\ savers[s].pc = "rename"
  /\ IF SaveStagePath \in DOMAIN fs
       THEN /\ fs' = IF SaveStagePath = MemoPath THEN fs
                     ELSE FsRename(fs, SaveStagePath, MemoPath)
            /\ savers' = [SaversAfterRename(savers, SaveStagePath, MemoPath) EXCEPT
                 ![s].pc = "done",
                 ![s].res = ValueResult(JsObj(<< <<"ok", [lit |-> "true"]>>,
                     <<"updatedAt", JsStr(nowIso(now))>> >>))]
            /\ lastSaved' = [valid |-> TRUE, doc |-> savers[s].doc,
                             updatedAt |-> Get(savers[s].payload, "updatedAt").str]
       ELSE /\ fs' = fs
            /\ savers' = [savers EXCEPT ![s].pc = "failed", ![s].res = ErrorResult("ENOENT")]
            /\ lastSaved' = lastSaved
  /\ UNCHANGED <<dirs, now, loaders, ops, envWrites, quarantined, imageVars, app, upd>>

SaveRename(s) ==
  /\ savers[s].pc = "rename"
  /\ IF SaveStagePath \in DOMAIN fs
       THEN /\ fs' = IF SaveStagePath = MemoPath THEN fs
                     ELSE FsRename(fs, SaveStagePath, MemoPath)
            /\ savers' = [SaversAfterRename(savers, SaveStagePath, MemoPath) EXCEPT
                 ![s].pc = "done",
                 ![s].res = ValueResult(JsObj(<< <<"ok", [lit |-> "true"]>>,
                     <<"updatedAt", Get(savers[s].payload, "updatedAt")>> >>))]
            /\ lastSaved' = [valid |-> TRUE, doc |-> savers[s].doc,
                             updatedAt |-> Get(savers[s].payload, "updatedAt").str]
       ELSE /\ fs' = fs
            /\ savers' = [savers EXCEPT ![s].pc = "failed", ![s].res = ErrorResult("ENOENT")]
            /\ lastSaved' = lastSaved
  /\ UNCHANGED <<dirs, now, loaders, ops, envWrites, quarantined, imageVars, app, upd>>

\* variant: the failure of a step is swallowed and success is reported
SaveFault_Swallowed(s) ==
  /\ SaveBusy(s)
  /\ savers' = [savers EXCEPT ![s].pc = "done", ![s].fd = NoFd,
                  ![s].res = ValueResult(JsObj(<< <<"ok", [lit |-> "true"]>> >>))]
  /\ UNCHANGED <<fs, dirs, now, loaders, ops, envWrites, quarantined, lastSaved, imageVars, app, upd>>

\* the pending mkdir, open, write or rename fails: saveMemo rejects
SaveFault(s) ==
  /\ SaveBusy(s)
  /\ savers' = [savers EXCEPT ![s].pc = "failed", ![s].fd = NoFd, ![s].res = ErrorResult("EIO")]
  /\ UNCHANGED <<fs, dirs, now, loaders, ops, envWrites, quarantined, lastSaved, imageVars, app, upd>>

\* the caller has taken the response
SaveReturn(s) ==
  /\ savers[s].pc \in {"done", "failed"}
  /\ savers' = [savers EXCEPT ![s] = IdleSaver]
  /\ UNCHANGED <<fs, dirs, now, loaders, ops, envWrites, quarantined, lastSaved, imageVars, app, upd>>

(***************************************************************************)
(* loadMemo.                                                               *)
(***************************************************************************)
LoadCall(l) ==
  /\ loaders[l].pc = "idle"
  /\ ops < MaxOps
  /\ loaders' = [loaders EXCEPT ![l] =
        [IdleLoader EXCEPT !.pc = "mkdirRoot", !.dirBefore = DOMAIN fs, !.sawSave = lastSaved]]
  /\ ops' = ops + 1
  /\ UNCHANGED <<fs, dirs, now, savers, envWrites, quarantined, lastSaved, imageVars, app, upd>>

LoadMkdirRoot(l) ==
  /\ loaders[l].pc = "mkdirRoot"
  /\ dirs' = MkdirRecursive(dirs, RootDir)
  /\ loaders' = [loaders EXCEPT ![l].pc = "mkdirImages"]
  /\ UNCHANGED <<fs, now, savers, ops, envWrites, quarantined, lastSaved, imageVars, app, upd>>

LoadMkdirImages(l) ==
  /\ loaders[l].pc = "mkdirImages"
  /\ dirs' = MkdirRecursive(dirs, ImagesDir)
  /\ loaders' = [loaders EXCEPT ![l].pc = "read"]
  /\ UNCHANGED <<fs, now, savers, ops, envWrites, quarantined, lastSaved, imageVars, app, upd>>

\* a mkdir of ensureStorageDirs fails: it is awaited outside the try block
LoadMkdirFault(l) ==
  /\ loaders[l].pc \in {"mkdirRoot", "mkdirImages"}
  /\ loaders' = [loaders EXCEPT ![l].pc = "failed", ![l].res = ErrorResult("EIO")]
  /\ UNCHANGED <<fs, dirs, now, savers, ops, envWrites, quarantined, lastSaved, imageVars, app, upd>>

\* the catch block up to the call of rename: an error other than ENOENT
LoadCatch(ld, outcome, raw) ==
  [ld EXCEPT !.pc = "quarantine", !.outcome = outcome, !.raw = raw,
             !.fallback = fallbackRecord(now),
             !.backupPath = backupPathOf(storagePaths, now)]

\* variant: a valid record is returned with a fresh time stamp
LoadRead_Fresh(l) ==
  /\ loaders[l].pc = "read"
  /\ LET file == FileAt(fs, MemoPath)
         parsed == JSONParse(file.data)
     IN loaders' = [loaders EXCEPT ![l] =
          IF ~file.exists
            THEN [@ EXCEPT !.pc = "done", !.outcome = "absent",
                           !.fallback = fallbackRecord(now),
                           !.res = ValueResult(fallbackRecord(now))]
          ELSE IF parsed.ok /\ isMemoRecord(parsed.val)
            THEN [@ EXCEPT !.pc = "done", !.outcome = "valid", !.raw = file,
                           !.res = ValueResult(MemoRecordOf(nowIso(now),
                                                            Get(parsed.val, "doc")))]
          ELSE LoadCatch(@, "invalid", file)]
  /\ UNCHANGED <<fs, dirs, now, savers, ops, envWrites, quarantined, lastSaved, imageVars, app, upd>>

\* readFile resolves or rejects with ENOENT; JSON.parse and the shape check
LoadRead(l) ==
  /\ loaders[l].pc = "read"
  /\ LET file == FileAt(fs, MemoPath)
         parsed == JSONParse(file.data)
     IN loaders' = [loaders EXCEPT ![l] =
          IF ~file.exists
            THEN [@ EXCEPT !.pc = "done", !.outcome = "absent",
                           !.fallback = fallbackRecord(now),
                           !.res = ValueResult(fallbackRecord(now))]
          ELSE IF parsed.ok /\ isMemoRecord(parsed.val)
            THEN [@ EXCEPT !.pc = "done", !.outcome = "valid", !.raw = file,
                           !.res = ValueResult(parsed.val)]
          ELSE LoadCatch(@, "invalid", file)]
  /\ UNCHANGED <<fs, dirs, now, savers, ops, envWrites, quarantined, lastSaved, imageVars, app, upd>>

\* readFile rejects with an error other than ENOENT (EACCES, EIO, EISDIR)
LoadReadFault(l) ==
  /\ loaders[l].pc = "read"
  /\ loaders' = [loaders EXCEPT ![l] = LoadCatch(@, "readerror", NoFile)]
  /\ UNCHANGED <<fs, dirs, now, savers, ops, envWrites, quarantined, lastSaved, imageVars, app, upd>>

\* rename(memoFilePath, backupPath).catch(() => undefined); return fallback
\* variant: after the rename the fallback record is written to memo.json
LoadQuarantine_Rewrite(l) ==
  /\ loaders[l].pc = "quarantine"
  /\ LET ld == loaders[l] IN
     IF MemoPath \in DOMAIN fs
       THEN /\ fs' = FsWrite(FsRename(fs, MemoPath, ld.backupPath), MemoPath,
                             JSONStringify(ld.fallback))
            /\ savers' = SaversAfterRename(savers, MemoPath, ld.backupPath)
            /\ quarantined' = quarantined \cup {fs[MemoPath]}
            /\ loaders' = [loaders EXCEPT ![l].pc = "done", ![l].moved = TRUE,
                                          ![l].res = ValueResult(ld.fallback)]
       ELSE /\ UNCHANGED <<fs, savers, quarantined>>
            /\ loaders' = [loaders EXCEPT ![l].pc = "done",
                                          ![l].res = ValueResult(ld.fallback)]
  /\ UNCHANGED <<dirs, now, ops, envWrites, lastSaved, imageVars, app, upd>>

LoadQuarantine(l) ==
  /\ loaders[l].pc = "quarantine"
  /\ LET ld == loaders[l] IN
     IF MemoPath \in DOMAIN fs
       THEN /\ fs' = FsRename(fs, MemoPath, ld.backupPath)
            /\ savers' = SaversAfterRename(savers, MemoPath, ld.backupPath)
            /\ quarantined' = quarantined \cup {fs[MemoPath]}
            /\ loaders' = [loaders EXCEPT ![l].pc = "done", ![l].moved = TRUE,
                                          ![l].res = ValueResult(ld.fallback)]
       ELSE /\ UNCHANGED <<fs, savers, quarantined>>
            /\ loaders' = [loaders EXCEPT ![l].pc = "done",
                                          ![l].res = ValueResult(ld.fallback)]
  /\ UNCHANGED <<dirs, now, ops, envWrites, lastSaved, imageVars, app, upd>>

\* variant: the failure of the quarantine rename reaches the caller
LoadQuarantineFault_Escalated(l) ==
  /\ loaders[l].pc = "quarantine"
  /\ loaders' = [loaders EXCEPT ![l].pc = "failed", ![l].res = ErrorResult("EIO")]
  /\ UNCHANGED <<fs, dirs, now, savers, ops, envWrites, quarantined, lastSaved, imageVars, app, upd>>

\* the quarantine rename fails for another reason: swallowed as well
LoadQuarantineFault(l) ==
  /\ loaders[l].pc = "quarantine"
  /\ loaders' = [loaders EXCEPT ![l].pc = "done", ![l].res = ValueResult(loaders[l].fallback)]
  /\ UNCHANGED <<fs, dirs, now, savers, ops, envWrites, quarantined, lastSaved, imageVars, app, upd>>

LoadReturn(l) ==
  /\ loaders[l].pc \in {"done", "failed"}
  /\ loaders' = [loaders EXCEPT ![l] = IdleLoader]
  /\ UNCHANGED <<fs, dirs, now, savers, ops, envWrites, quarantined, lastSaved, imageVars, app, upd>>

(***************************************************************************)
(* The environment: the clock, damage to memo.json, the process stopping.  *)
(***************************************************************************)
Tick ==
  /\ now < MaxClock
  /\ now' = now + 1
  /\ UNCHANGED <<fs, dirs, savers, loaders, ops, envWrites, quarantined, lastSaved, imageVars, app, upd>>

EnvCorrupt(c) ==
  /\ envWrites < MaxEnvWrites
  /\ fs' = FsWrite(fs, MemoPath, c)
  /\ envWrites' = envWrites + 1
  /\ lastSaved' = NoSave
  /\ UNCHANGED <<dirs, now, savers, loaders, ops, quarantined, imageVars, app, upd>>

\* the process stops between two steps: every call in flight is abandoned
Crash ==
  /\ (\E s \in Savers : SaveBusy(s)) \/ (\E l \in Loaders : LoadBusy(l))
  /\ savers' = [s \in Savers |-> IdleSaver]
  /\ loaders' = [l \in Loaders |-> IdleLoader]
  /\ lastSaved' = IF \E s \in Savers : SaveBusy(s) THEN NoSave ELSE lastSaved
  /\ imgSaver' = [k \in ImgSavers |-> IdleImgSaver]
  /\ req' = IdleReq
  /\ UNCHANGED <<fs, dirs, now, ops, envWrites, quarantined, usedIds, pathCall, normCall, app, upd>>

(***************************************************************************)
(* saveImage.                                                              *)
(***************************************************************************)
MAX_IMAGE_WIDTH == 640

\* the width of the significand of a Number (IEEE 754 binary64)
SignificandBits == 53

\* A positive Number is kept as [m, k]: the bits m of its significand, high bit
\* first, and the count k of them that stand after the binary point.
RECURSIVE BitsToInt(_)
BitsToInt(b) ==
  IF b = <<>> THEN 0 ELSE 2 * BitsToInt(SubSeq(b, 1, Len(b) - 1)) + b[Len(b)]

RECURSIVE IntToBits(_)
IntToBits(n) == IF n = 0 THEN <<>> ELSE Append(IntToBits(n \div 2), n % 2)

RECURSIVE Increment(_)
Increment(b) ==
  IF b = <<>> THEN <<1>>
  ELSE IF b[Len(b)] = 0 THEN Append(SubSeq(b, 1, Len(b) - 1), 1)
  ELSE Append(Increment(SubSeq(b, 1, Len(b) - 1)), 0)

\* the exact value m / 2^k rounded to a Number: to nearest, ties to even
RoundToNumber(m, k) ==
  IF Len(m) <= SignificandBits THEN [m |-> m, k |-> k]
  ELSE LET d == Len(m) - SignificandBits
           kept == SubSeq(m, 1, SignificandBits)
           guard == m[SignificandBits + 1]
           sticky == \E i \in (SignificandBits + 2)..Len(m) : m[i] = 1
           up == guard = 1 /\ (sticky \/ kept[SignificandBits] = 1)
           r == IF up THEN Increment(kept) ELSE kept
       IN IF Len(r) > SignificandBits
            THEN [m |-> SubSeq(r, 1, SignificandBits), k |-> k - d - 1]
            ELSE [m |-> r, k |-> k - d]

RECURSIVE DivideBits(_, _, _, _)
\* long division: m the bits of the quotient so far, r the remainder, k the
\* bits produced after the binary point; stops at an exact quotient or with
\* one bit more than a significand holds
DivideBits(m, r, den, k) ==
  IF r = 0 \/ Len(m) > SignificandBits THEN [m |-> m, r |-> r, k |-> k]
  ELSE LET bit == IF 2 * r >= den THEN 1 ELSE 0
           m2 == IF m = <<>> /\ bit = 0 THEN <<>> ELSE Append(m, bit)
       IN DivideBits(m2, 2 * r - bit * den, den, k + 1)

\* num / den of two positive integers, as the Number the division yields
NumberDivide(num, den) ==
  LET q == DivideBits(IntToBits(num \div den), num % den, den, 0)
  IN IF q.r = 0 THEN RoundToNumber(q.m, q.k)
     ELSE RoundToNumber(Append(q.m, 1), q.k + 1)

RECURSIVE TimesBits(_, _, _)
\* the bits of m * h + c, from the low bit up
TimesBits(m, h, c) ==
  IF c = 0 /\ m = <<>> THEN <<>>
  ELSE IF m = <<>> THEN IntToBits(c)
  ELSE LET t == m[Len(m)] * h + c
       IN Append(TimesBits(SubSeq(m, 1, Len(m) - 1), h, t \div 2), t % 2)

\* h * x of a positive integer h and a Number x, as the Number the product yields
NumberTimes(h, x) == RoundToNumber(TimesBits(x.m, h, 0), x.k)

\* Math.round: the nearest integer, a half going up
MathRound(x) ==
  LET len == Len(x.m) IN
  IF x.k = 0 THEN BitsToInt(x.m)
  ELSE IF x.k > len THEN 0
  ELSE BitsToInt(SubSeq(x.m, 1, len - x.k)) + x.m[len - x.k + 1]

\* variant: any one non-positive dimension alone is passed through
normalizeImageDimensions_BothNonPositive(width, height) ==
  IF width <= 0 /\ height <= 0 THEN [width |-> 0, height |-> 0]
  ELSE IF width <= MAX_IMAGE_WIDTH THEN [width |-> width, height |-> height]
  ELSE LET ratio == NumberDivide(MAX_IMAGE_WIDTH, width)
       IN [width |-> MathRound(NumberTimes(width, ratio)),
           height |-> IF height <= 0 THEN height ELSE MathRound(NumberTimes(height, ratio))]

normalizeImageDimensions(width, height) ==
  IF width <= 0 \/ height <= 0 THEN [width |-> 0, height |-> 0]
  ELSE IF width <= MAX_IMAGE_WIDTH THEN [width |-> width, height |-> height]
  ELSE LET ratio == NumberDivide(MAX_IMAGE_WIDTH, width)
       IN [width |-> MathRound(NumberTimes(width, ratio)),
           height |-> MathRound(NumberTimes(height, ratio))]

\* the values randomUUID() may return, shortened: lower-case hex digits and hyphens
UuidPool == {<<"a">>, <<"a", "-", "a">>}
ImageBuffers == {<<137, 80>>, <<78>>}
ImageSizes == {<<1400, 700>>, <<300, 150>>, <<0, 150>>}

ImgSaveCall(k, buffer, size) ==
  /\ imgSaver[k].pc = "idle"
  /\ ~pathCall.called
  /\ ops < MaxOps
  /\ imgSaver' = [imgSaver EXCEPT ![k] =
       [IdleImgSaver EXCEPT !.pc = "mkdirRoot", !.buffer = buffer,
                            !.width = size[1], !.height = size[2]]]
  /\ ops' = ops + 1
  /\ UNCHANGED <<fs, dirs, now, memoVars, usedIds, req, pathCall, normCall, app, upd>>

ImgSaveMkdirRoot(k) ==
  /\ imgSaver[k].pc = "mkdirRoot"
  /\ dirs' = MkdirRecursive(dirs, RootDir)
  /\ imgSaver' = [imgSaver EXCEPT ![k].pc = "mkdirImages"]
  /\ UNCHANGED <<fs, now, ops, memoVars, usedIds, req, pathCall, normCall, app, upd>>

\* the second mkdir resolves; the identifier is drawn and writeFile is called
ImgSaveMkdirImages(k, id) ==
  /\ imgSaver[k].pc = "mkdirImages"
  /\ id \in UuidPool \ usedIds
  /\ dirs' = MkdirRecursive(dirs, ImagesDir)
  /\ usedIds' = usedIds \cup {id}
  /\ imgSaver' = [imgSaver EXCEPT ![k].pc = "open", ![k].id = id,
                    ![k].imagePath = PathJoin(storagePaths.imagesDirPath, ImageFileName(id))]
  /\ UNCHANGED <<fs, now, ops, memoVars, req, pathCall, normCall, app, upd>>

ImgSaveOpen(k) ==
  /\ imgSaver[k].pc = "open"
  /\ fs' = FsWrite(fs, imgSaver[k].imagePath, <<>>)
  /\ imgSaver' = [imgSaver EXCEPT ![k].pc = "write"]
  /\ UNCHANGED <<dirs, now, ops, memoVars, usedIds, req, pathCall, normCall, app, upd>>

ImgSaveWrite(k) ==
  /\ imgSaver[k].pc = "write"
  /\ fs' = FsWrite(fs, imgSaver[k].imagePath, imgSaver[k].buffer)
  /\ LET normalized == normalizeImageDimensions(imgSaver[k].width, imgSaver[k].height) IN
     imgSaver' = [imgSaver EXCEPT ![k].pc = "done",
        ![k].res = ValueResult([id |-> imgSaver[k].id,
                             src |-> <<"memo-image:", "/", "/">> \o imgSaver[k].id,
                             width |-> normalized.width,
                             height |-> normalized.height])]
  /\ UNCHANGED <<dirs, now, ops, memoVars, usedIds, req, pathCall, normCall, app, upd>>

\* the pending mkdir or write fails: saveImage rejects
ImgSaveFault(k) ==
  /\ imgSaver[k].pc \in {"mkdirRoot", "mkdirImages", "open", "write"}
  /\ imgSaver' = [imgSaver EXCEPT ![k].pc = "failed", ![k].res = ErrorResult("EIO")]
  /\ UNCHANGED <<fs, dirs, now, ops, memoVars, usedIds, req, pathCall, normCall, app, upd>>

ImgSaveReturn(k) ==
  /\ imgSaver[k].pc \in {"done", "failed"}
  /\ imgSaver' = [imgSaver EXCEPT ![k] = IdleImgSaver]
  /\ UNCHANGED <<fs, dirs, now, ops, memoVars, usedIds, req, pathCall, normCall, app, upd>>

\* the pixel dimensions given to normalizeImageDimensions directly
\* (tests/storage.test.ts): naturalWidth and naturalHeight of an image, and
\* values that are not positive
DimWidths == {-1, 0, 1, 300, 640, 641, 1400} \cup {256 * j : j \in 1..MaxWidthUnits}
DimHeights == -1..MaxHeight

NormalizeCall(width, height) ==
  /\ ~normCall.called
  /\ normCall' = [called |-> TRUE, width |-> width, height |-> height,
                  res |-> normalizeImageDimensions(width, height)]
  /\ UNCHANGED <<fs, dirs, now, ops, memoVars, imgSaver, usedIds, req, pathCall, app, upd>>

NormalizeReturn ==
  /\ normCall.called
  /\ normCall' = NoNormCall
  /\ UNCHANGED <<fs, dirs, now, ops, memoVars, imgSaver, usedIds, req, pathCall, app, upd>>

(***************************************************************************)
(* electron/main.ts: the memo-image protocol handler.                      *)
(***************************************************************************)
Scheme == "memo-image:"
UrlChars == {"/", "a", "F", "-", "g", "."}

RECURSIVE StringsUpTo(_, _)
\* the strings over alphabet of at most n pieces
StringsUpTo(alphabet, n) ==
  IF n <= 0 THEN {<<>>}
  ELSE LET shorter == StringsUpTo(alphabet, n - 1)
       IN shorter \cup {Append(t, c) : t \in shorter, c \in alphabet}

\* the locators a request may carry: the scheme and what follows it, or a
\* string with no scheme
RequestUrls ==
  {<<Scheme>> \o t : t \in StringsUpTo(UrlChars, MaxUrlLen - 1)}
    \cup StringsUpTo(UrlChars, 1)

\* the identifiers given to imagePathForId directly
Ids == StringsUpTo(UrlChars, MaxIdLen)

RECURSIVE TakeUntilSep(_)
TakeUntilSep(s) ==
  IF s = <<>> \/ Head(s) = Sep THEN <<>> ELSE <<Head(s)>> \o TakeUntilSep(Tail(s))

RECURSIVE StripLeadingSeps(_)
\* replace(/^\/+/, '')
StripLeadingSeps(s) ==
  IF s # <<>> /\ Head(s) = Sep THEN StripLeadingSeps(Tail(s)) ELSE s

RECURSIVE UrlPathState(_, _, _)
\* the path state of the URL parser: s is the input after the leading "/",
\* buf the segment being read, path the segments kept
UrlPathState(s, buf, path) ==
  LET atEnd == s = <<>>
      shortened == IF path = <<>> THEN path ELSE SubSeq(path, 1, Len(path) - 1)
      kept == IF buf = DotDot THEN (IF atEnd THEN Append(shortened, <<>>) ELSE shortened)
              ELSE IF buf = Dot THEN (IF atEnd THEN Append(path, <<>>) ELSE path)
              ELSE Append(path, buf)
  IN IF atEnd THEN kept
     ELSE IF Head(s) = Sep THEN UrlPathState(Tail(s), <<>>, kept)
     ELSE UrlPathState(Tail(s), Append(buf, Head(s)), path)

RECURSIVE UrlPathname(_)
UrlPathname(segs) ==
  IF segs = <<>> THEN <<>> ELSE <<Sep>> \o Head(segs) \o UrlPathname(Tail(segs))

\* new URL(requestUrl): ok = FALSE for the TypeError of a locator with no scheme
ParseUrl(u) ==
  IF u = <<>> \/ Head(u) # Scheme THEN [ok |-> FALSE, host |-> <<>>, pathname |-> <<>>]
  ELSE LET rest == Tail(u) IN
    IF Len(rest) >= 2 /\ rest[1] = Sep /\ rest[2] = Sep THEN
      LET afterSlashes == SubSeq(rest, 3, Len(rest))
          authority == TakeUntilSep(afterSlashes)
          path == SubSeq(afterSlashes, Len(authority) + 1, Len(afterSlashes))
      IN [ok |-> TRUE, host |-> authority,
          pathname |-> IF path = <<>> THEN <<>>
                       ELSE UrlPathname(UrlPathState(Tail(path), <<>>, <<>>))]
    ELSE IF rest # <<>> /\ rest[1] = Sep THEN
      [ok |-> TRUE, host |-> <<>>,
       pathname |-> UrlPathname(UrlPathState(Tail(rest), <<>>, <<>>))]
    ELSE [ok |-> TRUE, host |-> <<>>, pathname |-> rest]

\* variant: the identifier is looked for in the path only
imageIdFromRequestUrl_PathOnly(requestUrl) ==
  LET parsed == ParseUrl(requestUrl)
      id == StripLeadingSeps(parsed.pathname)
  IN IF ~parsed.ok \/ id = <<>> THEN [isNull |-> TRUE, id |-> <<>>]
     ELSE [isNull |-> FALSE, id |-> id]

\* the identifier of a locator, or isNull for null
imageIdFromRequestUrl(requestUrl) ==
  LET parsed == ParseUrl(requestUrl)
      id == IF parsed.host # <<>> THEN parsed.host ELSE StripLeadingSeps(parsed.pathname)
  IN IF ~parsed.ok \/ id = <<>> THEN [isNull |-> TRUE, id |-> <<>>]
     ELSE [isNull |-> FALSE, id |-> id]

\* variant: one try block around validation and read, every failure a 404
RequestDispatch_OneCatch(url) ==
  LET imageId == imageIdFromRequestUrl(url)
      resolved == imagePathForId(storagePaths, imageId.id)
  IN IF imageId.isNull THEN [status |-> 400, id |-> <<>>, imagePath |-> <<>>]
     ELSE IF ~resolved.ok THEN [status |-> 404, id |-> imageId.id, imagePath |-> <<>>]
     ELSE [status |-> 0, id |-> imageId.id, imagePath |-> resolved.path]

\* the handler up to its first await: the response, or status 0 and the path to read
RequestDispatch(url) ==
  LET imageId == imageIdFromRequestUrl(url)
      resolved == imagePathForId(storagePaths, imageId.id)
  IN IF imageId.isNull THEN [status |-> 400, id |-> <<>>, imagePath |-> <<>>]
     ELSE IF ~resolved.ok THEN [status |-> 400, id |-> imageId.id, imagePath |-> <<>>]
     ELSE [status |-> 0, id |-> imageId.id, imagePath |-> resolved.path]

Request(url) ==
  /\ req.pc = "idle"
  /\ ~pathCall.called
  /\ ops < MaxOps
  /\ LET d == RequestDispatch(url) IN
     req' = IF d.status # 0
              THEN [IdleReq EXCEPT !.pc = "done", !.url = url, !.imageId = d.id,
                                   !.status = d.status, !.body = <<"Bad request">>]
              ELSE [IdleReq EXCEPT !.pc = "read", !.url = url, !.imageId = d.id,
                                   !.imagePath = d.imagePath]
  /\ ops' = ops + 1
  /\ UNCHANGED <<fs, dirs, now, memoVars, imgSaver, usedIds, pathCall, normCall, app, upd>>

\* readFile(imagePath) settles: 200 with the bytes, or 404
RequestRead ==
  /\ req.pc = "read"
  /\ req' = IF req.imagePath \in DOMAIN fs
              THEN [req EXCEPT !.pc = "done", !.fsAtRead = fs, !.status = 200,
                               !.body = fs[req.imagePath], !.contentType = "image/png"]
              ELSE [req EXCEPT !.pc = "done", !.fsAtRead = fs, !.status = 404,
                               !.body = <<"Not found">>]
  /\ UNCHANGED <<fs, dirs, now, ops, memoVars, imgSaver, usedIds, pathCall, normCall, app, upd>>

RequestReturn ==
  /\ req.pc = "done"
  /\ req' = IdleReq
  /\ UNCHANGED <<fs, dirs, now, ops, memoVars, imgSaver, usedIds, pathCall, normCall, app, upd>>

\* the renderer shows an image whose src a saveImage call has returned
RequestSaved(k) ==
  /\ imgSaver[k].pc = "done"
  /\ Request(imgSaver[k].res.value.src)

\* a direct call of imagePathForId (tests/storage.test.ts)
\* the call is synchronous: no other call is in flight while it runs
PathForIdCall(id) ==
  /\ ~pathCall.called
  /\ (\A k \in ImgSavers : imgSaver[k].pc = "idle") /\ req.pc = "idle"
  /\ pathCall' = [called |-> TRUE, id |-> id, res |-> imagePathForId(storagePaths, id)]
  /\ UNCHANGED <<fs, dirs, now, ops, memoVars, imgSaver, usedIds, req, normCall, app, upd>>

PathForIdReturn ==
  /\ pathCall.called
  /\ pathCall' = NoPathCall
  /\ UNCHANGED <<fs, dirs, now, ops, memoVars, imgSaver, usedIds, req, normCall, app, upd>>

(***************************************************************************)
(* src/renderer/App.tsx: auto-save and restore.                            *)
(***************************************************************************)
SaveDelay == 500

\* clearTimeout(id): nothing happens for null or for a timer that has fired
ClearTimeout(timers, id) == {t \in timers : t.id # id}

\* the outside variables the App component leaves alone
AppFrame == UNCHANGED <<fs, dirs, now, ops, memoVars, imageVars, upd>>

\* the effect runs once the editor exists: loadMemo is requested
AppMount ==
  /\ ~app.mounted /\ ~app.disposed
  /\ app' = [app EXCEPT !.mounted = TRUE, !.load = "pending"]
  /\ AppFrame

\* onUpdate: the user has edited; the editor reports its document
EditorUpdate(doc) ==
  /\ app.mounted
  /\ app.updates < MaxUpdates
  /\ app.clock + SaveDelay <= MaxAppClock
  /\ app' = [app EXCEPT
       !.editorDoc = doc, !.lastDoc = doc,
       !.timers = ClearTimeout(app.timers, app.saveTimer) \cup
                    {[id |-> app.nextTimer, due |-> app.clock + SaveDelay,
                      update |-> app.updates + 1]},
       !.saveTimer = app.nextTimer, !.nextTimer = app.nextTimer + 1,
       !.updates = app.updates + 1, !.lastUpdateAt = app.clock]
  /\ AppFrame

\* the timer's callback runs up to its await: window.memo.saveMemo(lastDoc.current)
TimerFire(t) ==
  /\ t \in app.timers
  /\ app.clock >= t.due
  /\ app' = IF app.lastDoc = JsNull
              THEN [app EXCEPT !.timers = app.timers \ {t}]
              ELSE [app EXCEPT !.timers = app.timers \ {t},
                      !.inflight = app.inflight + 1,
                      !.sent = Append(app.sent, [doc |-> app.lastDoc, at |-> app.clock,
                                                 update |-> t.update,
                                                 inflightBefore |-> app.inflight])]
  /\ AppFrame

\* a saveMemo request resolves or rejects; only the status line changes
SaveSettle ==
  /\ app.inflight > 0
  /\ app' = [app EXCEPT !.inflight = app.inflight - 1]
  /\ AppFrame

\* loadMemo resolves with a record: editor.commands.setContent(memo.doc, false),
\* which emits no update
LoadResolve(doc) ==
  /\ app.load = "pending"
  /\ app' = IF app.disposed
              THEN [app EXCEPT !.load = "resolved", !.loaded = doc]
              ELSE [app EXCEPT !.load = "resolved", !.loaded = doc, !.editorDoc = doc]
  /\ AppFrame

\* loadMemo rejects: 'Initialization failed'
LoadReject ==
  /\ app.load = "pending"
  /\ app' = [app EXCEPT !.load = "rejected"]
  /\ AppFrame

\* the effect's cleanup
AppUnmount ==
  /\ app.mounted
  /\ app' = [app EXCEPT !.mounted = FALSE, !.disposed = TRUE,
                        !.timers = ClearTimeout(app.timers, app.saveTimer)]
  /\ AppFrame

AppTick ==
  /\ app.clock + TickMs <= MaxAppClock
  /\ app' = [app EXCEPT !.clock = app.clock + TickMs]
  /\ AppFrame

(***************************************************************************)
(* electron/main.ts: the update check at startup.  A version or a tag is   *)
(* the sequence of its characters.                                         *)
(***************************************************************************)
DigitChars == {"0", "1", "2", "3", "9"}

DigitValue(c) ==
  IF c = "0" THEN 0 ELSE IF c = "1" THEN 1 ELSE IF c = "2" THEN 2
  ELSE IF c = "3" THEN 3 ELSE 9

RECURSIVE TrimStart(_)
TrimStart(s) == IF s # <<>> /\ Head(s) = " " THEN TrimStart(Tail(s)) ELSE s

RECURSIVE TrimEnd(_)
TrimEnd(s) ==
  IF s # <<>> /\ s[Len(s)] = " " THEN TrimEnd(SubSeq(s, 1, Len(s) - 1)) ELSE s

\* String.prototype.trim
Trim(s) == TrimEnd(TrimStart(s))

RECURSIVE TakeDigits(_)
\* the longest prefix matched by \d+
TakeDigits(s) ==
  IF s # <<>> /\ Head(s) \in DigitChars THEN <<Head(s)>> \o TakeDigits(Tail(s)) ELSE <<>>

RECURSIVE DigitsToNumber(_, _)
\* Number(digits), acc the value of the digits read so far
DigitsToNumber(digits, acc) ==
  IF digits = <<>> THEN acc
  ELSE DigitsToNumber(Tail(digits), 10 * acc + DigitValue(Head(digits)))

DropFirst(s, n) == SubSeq(s, n + 1, Len(s))

\* /^(\d+)\.(\d+)\.(\d+)(?:[-+].*)?$/ on the trimmed input: ok = FALSE for null
parseVersion(input) ==
  LET t == Trim(input)
      d1 == TakeDigits(t)
      r1 == DropFirst(t, Len(d1))
      d2 == IF r1 = <<>> THEN <<>> ELSE TakeDigits(Tail(r1))
      r2 == IF r1 = <<>> THEN <<>> ELSE DropFirst(Tail(r1), Len(d2))
      d3 == IF r2 = <<>> THEN <<>> ELSE TakeDigits(Tail(r2))
      r3 == IF r2 = <<>> THEN <<>> ELSE DropFirst(Tail(r2), Len(d3))
      matched ==
        /\ d1 # <<>> /\ r1 # <<>> /\ Head(r1) = "."
        /\ d2 # <<>> /\ r2 # <<>> /\ Head(r2) = "."
        /\ d3 # <<>>
        /\ (r3 = <<>> \/ Head(r3) \in {"-", "+"})
  IN IF matched
       THEN [ok |-> TRUE, parts |-> <<DigitsToNumber(d1, 0), DigitsToNumber(d2, 0),
                                      DigitsToNumber(d3, 0)>>]
       ELSE [ok |-> FALSE, parts |-> <<>>]

RECURSIVE ComparePartsFrom(_, _, _)
\* the loop of compareVersions from index i
ComparePartsFrom(a, b, i) ==
  IF i > 3 THEN 0
  ELSE IF a[i] > b[i] THEN 1
  ELSE IF a[i] < b[i] THEN -1
  ELSE ComparePartsFrom(a, b, i + 1)

\* variant: a version that cannot be parsed counts as the older one
compareVersions_UnparsedOlder(a, b) ==
  LET parsedA == parseVersion(a)
      parsedB == parseVersion(b)
  IN IF ~parsedA.ok THEN -1
     ELSE IF ~parsedB.ok THEN 1
     ELSE ComparePartsFrom(parsedA.parts, parsedB.parts, 1)

compareVersions(a, b) ==
  LET parsedA == parseVersion(a)
      parsedB == parseVersion(b)
  IN IF ~parsedA.ok \/ ~parsedB.ok THEN 0
     ELSE ComparePartsFrom(parsedA.parts, parsedB.parts, 1)

\* the version of a tag, or isNull for null
versionFromTag(tag) ==
  LET trimmed == Trim(tag)
      withoutPrefix == IF trimmed # <<>> /\ Head(trimmed) = "v" THEN Tail(trimmed)
                       ELSE trimmed
  IN IF parseVersion(withoutPrefix).ok THEN [isNull |-> FALSE, version |-> withoutPrefix]
     ELSE [isNull |-> TRUE, version |-> <<>>]

\* app.getVersion() of the builds considered
CurrentVersions ==
  {DevVersion,
   <<"1", ".", "9", ".", "0">>,
   <<"2", ".", "0", ".", "0">>,
   <<"0", ".", "0", ".", "1">>,
   <<"1", ".", "2", ".", "3", "-", "b">>,
   <<"d", "e", "v">>}

\* tag_name of the latest release, as the release API may report it
TagNames ==
  {<<"v", "1", ".", "2", ".", "3">>,
   <<"1", ".", "2", ".", "3">>,
   <<" ", "v", "1", ".", "3", ".", "0", " ">>,
   <<"v", "1", ".", "1", "0", ".", "0">>,
   <<"v", "1", ".", "2", ".", "3", "-", "b">>,
   <<"v", "1", ".", "2", ".", "2", "+", "b">>,
   <<"v", "0", ".", "9", ".", "9">>,
   <<"v", "2", ".", "0">>,
   <<"v", "v", "1", ".", "2", ".", "3">>,
   <<"v", " ", "2", ".", "0", ".", "0">>,
   <<"1", ".", "2", ".", "3", "b">>,
   <<>>}

HtmlUrls ==
  {<<"https://github.com/sakabe/always-memo/releases/tag/", "v">>,
   <<"https://example.com/">>}

\* what response.json() gives: a rejection, null, or an object whose tag_name
\* and html_url may be missing
ReleaseBodies ==
  {[kind |-> "unparsable", tag_name |-> JsUndefined, html_url |-> JsUndefined],
   [kind |-> "null", tag_name |-> JsUndefined, html_url |-> JsUndefined]}
  \cup {[kind |-> "object", tag_name |-> t, html_url |-> h] :
          t \in {JsStr(n) : n \in TagNames} \cup {JsUndefined},
          h \in {JsStr(u) : u \in HtmlUrls} \cup {JsUndefined}}

\* latestUpdateStatus = payload; mainWindow?.webContents.send(channel, payload)
pushUpdateStatus(u, payload) ==
  [u EXCEPT !.latestUpdateStatus = payload, !.sent = Append(u.sent, payload)]

ErrorStatus(u, message) ==
  UpdateStatusPayload("error", u.version, JsUndefined, JsUndefined, JsStr(message))

\* checkForUpdatesOnStartup up to its first await
CheckStart ==
  /\ upd.pc = "start"
  /\ upd' = IF ~upd.isPackaged
              THEN [upd EXCEPT !.pc = "done",
                      !.latestUpdateStatus =
                         UpdateStatusPayload("idle", upd.version, JsUndefined, JsUndefined,
                            JsStr("Update check is disabled in development."))]
              ELSE [pushUpdateStatus(upd,
                      UpdateStatusPayload("checking", upd.version, JsUndefined,
                                          JsUndefined, JsUndefined))
                    EXCEPT !.pc = "fetch", !.requests = upd.requests + 1]
  /\ UNCHANGED <<fs, dirs, now, ops, memoVars, imageVars, app>>

\* fetch settles: it rejects, or resolves with a response that is ok or not
FetchSettle(outcome) ==
  /\ upd.pc = "fetch"
  /\ upd' = IF outcome = "rejected"
              THEN [pushUpdateStatus(upd, ErrorStatus(upd, "fetch failed"))
                    EXCEPT !.pc = "done"]
            ELSE IF outcome = "notOk"
              THEN [pushUpdateStatus(upd, ErrorStatus(upd, "Release API returned 404"))
                    EXCEPT !.pc = "done"]
            ELSE [upd EXCEPT !.pc = "json"]
  /\ UNCHANGED <<fs, dirs, now, ops, memoVars, imageVars, app>>

\* response.json() settles and the function runs to its end
JsonSettle(body) ==
  /\ upd.pc = "json"
  /\ LET tag == IF body.tag_name = JsUndefined THEN <<>> ELSE body.tag_name.str
         latestVersion == versionFromTag(tag)
         payload ==
           IF body.kind = "unparsable" THEN ErrorStatus(upd, "Unexpected token")
           ELSE IF body.kind = "null"
             THEN ErrorStatus(upd, "Cannot read properties of null")
           ELSE IF latestVersion.isNull
             THEN ErrorStatus(upd, "Failed to parse latest release version.")
           ELSE IF compareVersions(latestVersion.version, upd.version) > 0
             THEN UpdateStatusPayload("available", upd.version,
                                      JsStr(latestVersion.version), body.html_url,
                                      JsUndefined)
           ELSE UpdateStatusPayload("not_available", upd.version,
                                    JsStr(latestVersion.version), JsUndefined, JsUndefined)
     IN upd' = [pushUpdateStatus(upd, payload) EXCEPT !.pc = "done"]
  /\ UNCHANGED <<fs, dirs, now, ops, memoVars, imageVars, app>>

(***************************************************************************)
(* Specifications.                                                         *)
(***************************************************************************)
\* the steps of the memo operations once called, without I/O errors
MemoStep ==
  \/ \E s \in Savers : SaveMkdirRoot(s)
  \/ \E s \in Savers : SaveMkdirImages(s)
  \/ \E s \in Savers : SaveOpen(s)
  \/ \E s \in Savers : SaveWrite(s)
  \/ \E s \in Savers : SaveRename(s)
  \/ \E s \in Savers : SaveReturn(s)
  \/ \E l \in Loaders : LoadMkdirRoot(l)
  \/ \E l \in Loaders : LoadMkdirImages(l)
  \/ \E l \in Loaders : LoadRead(l)
  \/ \E l \in Loaders : LoadQuarantine(l)
  \/ \E l \in Loaders : LoadReturn(l)
  \/ Tick

\* the I/O errors of the memo operations
MemoFault ==
  \/ \E s \in Savers : SaveFault(s)
  \/ \E l \in Loaders : LoadMkdirFault(l)
  \/ \E l \in Loaders : LoadReadFault(l)
  \/ \E l \in Loaders : LoadQuarantineFault(l)

\* memo:load and memo:save handled as they arrive, their steps interleaved;
\* the document file is damaged and the process stops between operations or
\* during them
Next ==
  \/ \E s \in Savers, d \in Docs : SaveCall(s, d)
  \/ \E l \in Loaders : LoadCall(l)
  \/ MemoStep
  \/ AllIdle /\ \E c \in CorruptContents : EnvCorrupt(c)
  \/ Crash

Spec == Init /\ [][Next]_vars

\* one operation at a time, each run to its end, no I/O errors
NextSeq ==
  \/ AllIdle /\ \E s \in Savers, d \in Docs : SaveCall(s, d)
  \/ AllIdle /\ \E l \in Loaders : LoadCall(l)
  \/ MemoStep
  \/ AllIdle /\ \E c \in CorruptContents : EnvCorrupt(c)

SpecSeq == Init /\ [][NextSeq]_vars

\* one operation at a time, with I/O errors and the process stopping
NextFault ==
  \/ NextSeq
  \/ MemoFault
  \/ Crash

SpecFault == Init /\ [][NextFault]_vars

\* at most one saveMemo in flight; loadMemo calls interleave with it and the
\* process may stop at any point
NextSingle ==
  \/ ~AnySaveActive /\ \E s \in Savers, d \in Docs : SaveCall(s, d)
  \/ \E l \in Loaders : LoadCall(l)
  \/ MemoStep
  \/ ~AnySaveActive /\ \E c \in CorruptContents : EnvCorrupt(c)
  \/ Crash

SpecSingle == Init /\ [][NextSingle]_vars

\* at most one saveMemo in flight beside the loadMemo calls, the document file
\* damaged only between operations
NextRace ==
  \/ ~AnySaveActive /\ \E s \in Savers, d \in Docs : SaveCall(s, d)
  \/ \E l \in Loaders : LoadCall(l)
  \/ MemoStep
  \/ AllIdle /\ \E c \in CorruptContents : EnvCorrupt(c)
  \/ Crash

SpecRace == Init /\ [][NextRace]_vars

\* one saveImage at a time, the memo-image handler and direct calls of
\* imagePathForId
NextImage ==
  \/ \E b \in ImageBuffers, z \in ImageSizes : ImgSaveCall(1, b, z)
  \/ ImgSaveMkdirRoot(1)
  \/ \E id \in UuidPool : ImgSaveMkdirImages(1, id)
  \/ ImgSaveOpen(1)
  \/ ImgSaveWrite(1)
  \/ ImgSaveFault(1)
  \/ ImgSaveReturn(1)
  \/ \E url \in RequestUrls : Request(url)
  \/ RequestRead
  \/ RequestReturn
  \/ \E id \in Ids : PathForIdCall(id)
  \/ PathForIdReturn

SpecImage == Init /\ [][NextImage]_vars

\* image:saveBytes, memo:save, memo:load and requests for saved images handled
\* as they arrive, their steps interleaved, no I/O errors
NextStore ==
  \/ \E k \in ImgSavers, b \in ImageBuffers : ImgSaveCall(k, b, <<300, 150>>)
  \/ \E k \in ImgSavers : ImgSaveMkdirRoot(k)
  \/ \E k \in ImgSavers, id \in UuidPool : ImgSaveMkdirImages(k, id)
  \/ \E k \in ImgSavers : ImgSaveOpen(k)
  \/ \E k \in ImgSavers : ImgSaveWrite(k)
  \/ \E k \in ImgSavers : ImgSaveReturn(k)
  \/ \E k \in ImgSavers : RequestSaved(k)
  \/ RequestRead
  \/ RequestReturn
  \/ ~AnySaveActive /\ \E s \in Savers, d \in Docs : SaveCall(s, d)
  \/ \E l \in Loaders : LoadCall(l)
  \/ MemoStep
  \/ AllIdle /\ \E c \in CorruptContents : EnvCorrupt(c)

SpecStore == Init /\ [][NextStore]_vars

\* the update check of a build, packaged or not, of any of the versions
InitUpdate ==
  /\ InitStorage
  /\ upd \in {InitialUpdate(p, v) : p \in BOOLEAN, v \in CurrentVersions}

NextUpdate ==
  \/ CheckStart
  \/ \E outcome \in {"rejected", "notOk", "ok"} : FetchSettle(outcome)
  \/ \E body \in ReleaseBodies : JsonSettle(body)

SpecUpdate == InitUpdate /\ [][NextUpdate]_vars

\* the function is called at startup, and a promise it awaits settles: fetch
\* and the reading of the body end with a result or with an error
SpecUpdateLive ==
  /\ SpecUpdate
  /\ WF_vars(CheckStart)
  /\ WF_vars(\E outcome \in {"rejected", "notOk", "ok"} : FetchSettle(outcome))
  /\ WF_vars(\E body \in ReleaseBodies : JsonSettle(body))

\* one operation at a time, no I/O errors, memo.json left in any state between
\* operations
NextFile ==
  \/ AllIdle /\ \E s \in Savers, d \in Docs : SaveCall(s, d)
  \/ AllIdle /\ \E l \in Loaders : LoadCall(l)
  \/ MemoStep
  \/ AllIdle /\ \E c \in FileContents : EnvCorrupt(c)

SpecFile == Init /\ [][NextFile]_vars

\* imagePathForId alone, called with each identifier
NextPath ==
  \/ \E id \in Ids : PathForIdCall(id)
  \/ PathForIdReturn

SpecPath == Init /\ [][NextPath]_vars

\* normalizeImageDimensions alone, called with each pair of dimensions
NextNormalize ==
  \/ \E width \in DimWidths, height \in DimHeights : NormalizeCall(width, height)
  \/ NormalizeReturn

SpecNormalize == Init /\ [][NextNormalize]_vars

\* the App component: edits, the debounce timer, the restore at start
NextApp ==
  \/ AppMount
  \/ \E doc \in Docs : EditorUpdate(doc)
  \/ \E t \in app.timers : TimerFire(t)
  \/ SaveSettle
  \/ \E doc \in Docs : LoadResolve(doc)
  \/ LoadReject
  \/ AppUnmount
  \/ AppTick

SpecApp == Init /\ [][NextApp]_vars

\* time passes and a timer that is due fires
SpecAppLive ==
  /\ SpecApp
  /\ WF_vars(AppTick)
  /\ WF_vars(\E t \in app.timers : TimerFire(t))

(***************************************************************************)
(* The claims.                                                             *)
(***************************************************************************)
\* the text of a complete record: it parses and passes the shape check
CompleteRecordText(t) == JSONParse(t).ok /\ isMemoRecord(JSONParse(t).val)

\* the content of a file is whole: a complete record, or what the environment left
WholeFile(file) ==
  file.exists => (CompleteRecordText(file.data) \/ file.data \in CorruptContents)

\* the file a saveMemo call is about to publish
NewFileOf(s) == [exists |-> TRUE, data |-> savers[s].buf]

\* C1: with one saveMemo in flight, every step of it leaves memo.json as it
\* was or replaces it by the complete new record, so that at every step, and
\* when the process stops between two steps, memo.json holds the complete
\* earlier content or the complete new record; and what an interleaved
\* loadMemo reads is never a partly written record.
Thm_C1 ==
  [][/\ WholeFile(FileAt(fs', MemoPath))
     /\ \A l \in Loaders : WholeFile(loaders'[l].raw)
     /\ \A s \in Savers :
          (savers[s].pc # "idle" /\ savers'[s] # savers[s]) =>
            \/ FileAt(fs', MemoPath) = FileAt(fs, MemoPath)
            \/ /\ FileAt(fs', MemoPath) = NewFileOf(s)
               /\ CompleteRecordText(savers[s].buf)
               /\ JSONParse(savers[s].buf).val =
                    MemoRecordOf(Get(savers[s].payload, "updatedAt").str, savers[s].doc)
    ]_vars

\* a save is halfway through writing memo.json.tmp while memo.json still holds
\* the earlier complete record
Witness_C1 ==
  \E s \in Savers :
    /\ savers[s].pc = "write"
    /\ savers[s].off > 0 /\ savers[s].off < Len(savers[s].buf)
    /\ TempPath \in DOMAIN fs /\ ~CompleteRecordText(fs[TempPath])
    /\ savers[s].before.exists /\ CompleteRecordText(savers[s].before.data)
    /\ FileAt(fs, MemoPath) = savers[s].before

\* C2: a loadMemo that follows a successful saveMemo(d), nothing in between,
\* returns a record whose doc is d and quarantines nothing.
Thm_C2 ==
  \A l \in Loaders :
    (loaders[l].pc \in {"done", "failed"} /\ loaders[l].sawSave.valid) =>
      /\ loaders[l].pc = "done"
      /\ loaders[l].res.kind = "value"
      /\ Get(loaders[l].res.value, "doc") = loaders[l].sawSave.doc
      /\ ~loaders[l].moved
      /\ DOMAIN fs = loaders[l].dirBefore

Witness_C2 ==
  \E l \in Loaders :
    /\ loaders[l].pc = "done"
    /\ loaders[l].sawSave.valid
    /\ loaders[l].sawSave.doc = DocHello

\* {type: 'doc', content: [{type: 'paragraph'}]}
EmptyDocument ==
  [obj |-> << <<"type", [str |-> "doc"]>>,
              <<"content", [arr |-> << [obj |-> << <<"type", [str |-> "paragraph"]>> >>] >>]>> >>]

IsDefaultRecord(r) ==
  /\ Get(r, "version") = [num |-> 1]
  /\ "str" \in DOMAIN Get(r, "updatedAt")
  /\ Get(r, "doc") = EmptyDocument

\* memo.json.corrupt-<ms>
QuarantineNames ==
  {<<"userData", "/", "memo.json", ".corrupt-", DecimalString(ms)>> : ms \in 0..MaxClock}

\* C3: after loadMemo has found invalid content at memo.json it returns a
\* default record and the directory holds exactly one more file, named
\* memo.json.corrupt-<ms>, with the invalid content unchanged.
CE_C3 ==
  \A l \in Loaders :
    (loaders[l].pc = "done" /\ loaders[l].outcome = "invalid") =>
      /\ loaders[l].res.kind = "value" /\ IsDefaultRecord(loaders[l].res.value)
      /\ \E q \in QuarantineNames :
           /\ DOMAIN fs \ loaders[l].dirBefore = {q}
           /\ fs[q] = loaders[l].raw.data

\* C4: the content of every file loadMemo has quarantined is still there under
\* a memo.json.corrupt-<ms> name.
CE_C4 ==
  \A c \in quarantined :
    \E q \in QuarantineNames : q \in DOMAIN fs /\ fs[q] = c

\* C5: loadMemo never rejects.
CE_C5 == \A l \in Loaders : loaders[l].pc # "failed"

\* C6: with no document file, loadMemo returns a record of version 1 with a
\* string updatedAt and the default empty document, and no error.
Thm_C6 ==
  \A l \in Loaders :
    (loaders[l].pc \in {"done", "failed"} /\ MemoPath \notin loaders[l].dirBefore) =>
      /\ loaders[l].pc = "done"
      /\ loaders[l].res.kind = "value"
      /\ IsDefaultRecord(loaders[l].res.value)

Witness_C6 ==
  \E l \in Loaders :
    /\ loaders[l].pc = "done"
    /\ MemoPath \notin loaders[l].dirBefore
    /\ loaders[l].res.kind = "value"

\* C7: after successful saves made one after the other, memo.json holds exactly
\* the record of the last one, and loadMemo returns that record.
Thm_C7 ==
  /\ lastSaved.valid =>
       /\ MemoPath \in DOMAIN fs
       /\ JSONParse(fs[MemoPath]) =
            [ok |-> TRUE, val |-> MemoRecordOf(lastSaved.updatedAt, lastSaved.doc)]
  /\ \A l \in Loaders :
       (loaders[l].pc = "done" /\ loaders[l].sawSave.valid) =>
         loaders[l].res =
           ValueResult(MemoRecordOf(loaders[l].sawSave.updatedAt, loaders[l].sawSave.doc))

\* a save has just replaced the record of an earlier save of another document
Witness_C7 ==
  \E s \in Savers :
    /\ savers[s].pc = "done"
    /\ lastSaved.valid
    /\ savers[s].before.exists
    /\ CompleteRecordText(savers[s].before.data)
    /\ Get(JSONParse(savers[s].before.data).val, "doc") # savers[s].doc

\* a non-empty string of hexadecimal digits and hyphens
HexOrHyphenId(id) ==
  /\ id # <<>>
  /\ \A i \in 1..Len(id) :
       id[i] \in {"0", "1", "2", "3", "4", "5", "6", "7", "8", "9", "-",
                  "a", "b", "c", "d", "e", "f", "A", "B", "C", "D", "E", "F"}

\* C8: imagePathForId rejects every identifier that is empty or has a character
\* outside [0-9a-fA-F-] and builds no path for it; the handler starts no file
\* read for such an identifier and answers it without having read.
Thm_C8 ==
  /\ (pathCall.called /\ ~HexOrHyphenId(pathCall.id)) =>
       (~pathCall.res.ok /\ pathCall.res.path = <<>>)
  /\ req.pc = "read" => HexOrHyphenId(req.imageId)
  /\ (req.pc = "done" /\ ~HexOrHyphenId(req.imageId)) =>
       (req.imagePath = <<>> /\ req.fsAtRead = <<>> /\ req.status \notin {200, 404})

\* a request whose identifier holds a dot has been answered
Witness_C8 ==
  /\ req.pc = "done"
  /\ \E i \in 1..Len(req.imageId) : req.imageId[i] = "."

\* C9: imagePathForId returns a path exactly for the non-empty strings of
\* hexadecimal digits and hyphens, and the path is <imagesDir>/<id>.png, a
\* direct child of the image directory.
Thm_C9 ==
  pathCall.called =>
    /\ pathCall.res.ok <=> HexOrHyphenId(pathCall.id)
    /\ pathCall.res.ok =>
         /\ pathCall.res.path = <<"userData", "/", "images", "/">> \o pathCall.id \o <<".png">>
         /\ PathDirname(pathCall.res.path) = <<"userData", "/", "images">>
         /\ Len(SplitPath(pathCall.res.path, <<>>, <<>>)) = 3

Witness_C9 ==
  /\ pathCall.called
  /\ pathCall.res.ok
  /\ Len(pathCall.id) = MaxIdLen

Thm_C11 ==
  \A k \in ImgSavers :
  LET file == <<"userData", "/", "images", "/">> \o imgSaver[k].id \o <<".png">> IN
  /\ imgSaver[k].pc = "open" =>
       (imgSaver[k].imagePath = file /\ file \notin DOMAIN fs)
  /\ imgSaver[k].pc = "done" =>
       /\ imgSaver[k].imagePath = file
       /\ file \in DOMAIN fs /\ fs[file] = imgSaver[k].buffer
       /\ imgSaver[k].res.kind = "value"
       /\ imgSaver[k].res.value.id = imgSaver[k].id
       /\ imgSaver[k].res.value.src = <<"memo-image:", "/", "/">> \o imgSaver[k].id
       /\ [width |-> imgSaver[k].res.value.width, height |-> imgSaver[k].res.value.height]
            = normalizeImageDimensions(imgSaver[k].width, imgSaver[k].height)
       /\ (imgSaver[k].width = 1400 /\ imgSaver[k].height = 700) =>
            (imgSaver[k].res.value.width = 640 /\ imgSaver[k].res.value.height = 320)
       /\ (imgSaver[k].width <= 0 \/ imgSaver[k].height <= 0) =>
            (imgSaver[k].res.value.width = 0 /\ imgSaver[k].res.value.height = 0)

\* a second image of 1400 x 700 has been saved next to the first
Witness_C11 ==
  \E k \in ImgSavers :
  /\ imgSaver[k].pc = "done"
  /\ imgSaver[k].width = 1400 /\ imgSaver[k].height = 700
  /\ Cardinality(DOMAIN fs) = 2

\* round(num / den) of the exact quotient of two positive integers, a half going up
RoundHalfUp(num, den) == (2 * num + den) \div (2 * den)

\* C12: normalizeImageDimensions returns the dimensions unchanged for
\* 0 < width <= 640 (height positive), and (640, round(height * 640 / width)),
\* rounded to nearest, for width > 640 and height > 0.
CE_C12 ==
  normCall.called =>
    /\ (0 < normCall.width /\ normCall.width <= 640 /\ normCall.height > 0) =>
         normCall.res = [width |-> normCall.width, height |-> normCall.height]
    /\ (normCall.width > 640 /\ normCall.height > 0) =>
         normCall.res = [width |-> 640,
                         height |-> RoundHalfUp(normCall.height * 640, normCall.width)]

\* C13: normalizeImageDimensions returns (0, 0) whenever a dimension is not
\* positive, whatever the other one is.
Thm_C13 ==
  (normCall.called /\ (normCall.width <= 0 \/ normCall.height <= 0)) =>
    normCall.res = [width |-> 0, height |-> 0]

\* a width over the limit with a height of zero
Witness_C13 ==
  /\ normCall.called
  /\ normCall.width > MAX_IMAGE_WIDTH
  /\ normCall.height = 0

\* C14: with saveMemo calls in flight together, in every interleaving none of
\* them is rejected and memo.json never holds a mixture of their records.
CE_C14 ==
  /\ \A s \in Savers : savers[s].pc # "failed"
  /\ WholeFile(FileAt(fs, MemoPath))

\* C15: saveMemo answers {ok: true, updatedAt} only in the step that completes
\* the rename onto memo.json; a step that fails ends the call with that error
\* and no success response, and the call takes no further step.
Thm_C15 ==
  [][\A s \in Savers :
       /\ (savers'[s].pc = "done" /\ savers[s].pc # "done") =>
            /\ savers[s].pc = "rename"
            /\ FileAt(fs', MemoPath) = [exists |-> TRUE, data |-> savers[s].buf]
            /\ TempPath \notin DOMAIN fs'
            /\ savers'[s].res =
                 ValueResult(JsObj(<< <<"ok", [lit |-> "true"]>>,
                                      <<"updatedAt", Get(savers[s].payload, "updatedAt")>> >>))
       /\ savers'[s].res.kind = "value" => savers'[s].pc = "done"
       /\ savers'[s].pc = "failed" => savers'[s].res.kind = "error"
       /\ (savers'[s].pc = "failed" /\ savers[s].pc # "failed") =>
            (SaveBusy(s) /\ fs' = fs)
       /\ savers[s].pc = "failed" => savers'[s] \in {savers[s], IdleSaver}
    ]_vars

\* the rename of a completely written memo.json.tmp has failed
Witness_C15 ==
  \E s \in Savers :
    /\ savers[s].pc = "failed"
    /\ savers[s].off = Len(savers[s].buf) /\ savers[s].buf # <<>>
    /\ TempPath \in DOMAIN fs /\ fs[TempPath] = savers[s].buf

\* the debounce as the code has it: at most one save timer is pending; an
\* update clears the pending timer; a request is issued only SaveDelay after
\* the latest update, for that update and with the document it reported; every
\* update is followed by such a request unless another update or the unmount
\* comes first; when loadMemo resolves the editor is given its doc
DebounceAndRestore ==
  /\ [](Cardinality(app.timers) <= 1)
  /\ [][/\ app'.sent # app.sent =>
             /\ Len(app'.sent) = Len(app.sent) + 1
             /\ app.mounted
             /\ app'.sent[Len(app'.sent)].doc = app.lastDoc
             /\ app'.sent[Len(app'.sent)].update = app.updates
             /\ app.clock >= app.lastUpdateAt + SaveDelay
        /\ (app.updates < app'.updates /\ app.timers # {}) =>
             app.timers \cap app'.timers = {}
        /\ (app.load = "pending" /\ app'.load = "resolved" /\ ~app.disposed) =>
             app'.editorDoc = app'.loaded
       ]_vars
  /\ \A n \in 1..MaxUpdates :
       (app.mounted /\ app.updates = n) ~>
         \/ ~app.mounted
         \/ app.updates > n
         \/ \E i \in 1..Len(app.sent) :
              app.sent[i].update = n /\ app.sent[i].doc = app.lastDoc

\* C16: auto-save and restore: the debounce and the restore above, and every
\* saveMemo request carries the document the editor holds when it is issued.
CE_C16 ==
  /\ DebounceAndRestore
  /\ [][app'.sent # app.sent =>
          app'.sent[Len(app'.sent)].doc = app.editorDoc]_vars

\* C17: a loadMemo that has returned found no file and returns the default
\* record with nothing renamed, or found a valid record and returns it with
\* nothing renamed, or found invalid content and returns the default record;
\* and the quarantine rename never moves a valid record.
CE_C17 ==
  /\ \A l \in Loaders :
       loaders[l].pc = "done" =>
         /\ loaders[l].res.kind = "value"
         /\ loaders[l].outcome = "absent" =>
              (IsDefaultRecord(loaders[l].res.value) /\ ~loaders[l].moved)
         /\ loaders[l].outcome = "valid" =>
              /\ loaders[l].res.value = JSONParse(loaders[l].raw.data).val
              /\ ~loaders[l].moved
         /\ loaders[l].outcome = "invalid" => IsDefaultRecord(loaders[l].res.value)
  /\ \A c \in quarantined : ~CompleteRecordText(c)

\* C18: a loadMemo that found content which parses and fails the shape check
\* (version missing or not 1, updatedAt missing, doc missing) has renamed it to
\* memo.json.corrupt-<ms> in the same directory and returns a default record,
\* and memo.json is gone; a loadMemo that starts with no memo.json, as the one
\* that follows does, ends as for an absent file and adds no file.
Thm_C18 ==
  \A l \in Loaders :
    /\ (loaders[l].pc = "done" /\ loaders[l].raw.exists
          /\ loaders[l].raw.data \in ShapeInvalidContents) =>
         /\ loaders[l].res.kind = "value" /\ IsDefaultRecord(loaders[l].res.value)
         /\ loaders[l].moved
         /\ MemoPath \notin DOMAIN fs
         /\ loaders[l].backupPath \in QuarantineNames
         /\ PathDirname(loaders[l].backupPath) = PathDirname(MemoPath)
         /\ loaders[l].backupPath \in DOMAIN fs
         /\ fs[loaders[l].backupPath] = loaders[l].raw.data
    /\ (loaders[l].pc = "done" /\ MemoPath \notin loaders[l].dirBefore) =>
         /\ loaders[l].outcome = "absent"
         /\ ~loaders[l].moved
         /\ DOMAIN fs = loaders[l].dirBefore

\* a loadMemo has ended for an absent file after an earlier one quarantined a
\* record without doc
Witness_C18 ==
  \E l \in Loaders :
    /\ loaders[l].pc = "done"
    /\ loaders[l].outcome = "absent"
    /\ \E q \in QuarantineNames \cap loaders[l].dirBefore : q \in DOMAIN fs /\ fs[q] = NoDoc

\* C19: when the quarantine rename fails, loadMemo still returns the default
\* record and does not reject, the invalid file stays at memo.json unchanged,
\* and loadMemo takes no further step, so no second rename.
Thm_C19 ==
  /\ [](\A l \in Loaders :
          (loaders[l].pc = "done" /\ loaders[l].outcome = "invalid" /\ ~loaders[l].moved) =>
            /\ loaders[l].res.kind = "value" /\ IsDefaultRecord(loaders[l].res.value)
            /\ FileAt(fs, MemoPath) = loaders[l].raw
            /\ DOMAIN fs = loaders[l].dirBefore)
  /\ [][\A l \in Loaders :
          /\ loaders[l].pc = "quarantine" => loaders'[l].pc # "failed"
          /\ (loaders[l].pc = "quarantine" /\ loaders'[l].pc = "done" /\ ~loaders'[l].moved) =>
               fs' = fs
          /\ loaders[l].pc = "done" => loaders'[l] \in {loaders[l], IdleLoader}
       ]_vars

\* the rename of '{broken-json' has failed and loadMemo has returned
Witness_C19 ==
  \E l \in Loaders :
    /\ loaders[l].pc = "done"
    /\ loaders[l].outcome = "invalid"
    /\ ~loaders[l].moved
    /\ loaders[l].raw.data = BrokenJson

\* a record as the MemoRecord type has it: version 1, a string updatedAt, a doc object
IsStoredMemoRecord(v) ==
  /\ "obj" \in DOMAIN v
  /\ Get(v, "version") = [num |-> 1]
  /\ "str" \in DOMAIN Get(v, "updatedAt")
  /\ "obj" \in DOMAIN Get(v, "doc")

\* C20: a loadMemo that found a valid record at memo.json returns that record
\* as stored, time stamp and unknown fields included, and leaves memo.json and
\* the set of files as they were.
Thm_C20 ==
  \A l \in Loaders :
    (loaders[l].pc = "done" /\ loaders[l].raw.exists
       /\ JSONParse(loaders[l].raw.data).ok
       /\ IsStoredMemoRecord(JSONParse(loaders[l].raw.data).val)) =>
      /\ loaders[l].res = ValueResult(JSONParse(loaders[l].raw.data).val)
      /\ loaders[l].raw.data = JSONStringify(StoredRecord) =>
           loaders[l].res.value = StoredRecord
      /\ ~loaders[l].moved
      /\ FileAt(fs, MemoPath) = loaders[l].raw
      /\ DOMAIN fs = loaders[l].dirBefore

\* the record left by an earlier run has been loaded
Witness_C20 ==
  \E l \in Loaders :
    /\ loaders[l].pc = "done"
    /\ loaders[l].outcome = "valid"
    /\ loaders[l].raw.data = JSONStringify(StoredRecord)

\* C21: with two saveMemo calls in flight together, memo.json holds at every
\* instant a complete record (or what the environment left there), and no
\* call is still writing, through its open descriptor, the file a rename has
\* published at memo.json.
CE_C21 ==
  /\ FileAt(fs, MemoPath).exists =>
       \/ CompleteRecordText(fs[MemoPath])
       \/ fs[MemoPath] \in CorruptContents
  /\ \A s \in Savers : ~(savers[s].pc = "write" /\ savers[s].fd = MemoPath)

\* C22: with a saveMemo in flight beside it, what loadMemo has moved to the
\* quarantine name is the content it read and found invalid, and the record of
\* a successful save is still at memo.json when no operation is in flight.
CE_C22 ==
  /\ \A l \in Loaders :
       (loaders[l].pc = "done" /\ loaders[l].moved) =>
         /\ loaders[l].raw.exists
         /\ loaders[l].backupPath \in DOMAIN fs
         /\ fs[loaders[l].backupPath] = loaders[l].raw.data
  /\ (lastSaved.valid /\ \A s \in Savers : ~SaveBusy(s)) =>
       /\ MemoPath \in DOMAIN fs
       /\ JSONParse(fs[MemoPath]) =
            [ok |-> TRUE, val |-> MemoRecordOf(lastSaved.updatedAt, lastSaved.doc)]

\* C23: the renderer starts a saveMemo request only when no earlier request is
\* still unresolved.
CE_C23 ==
  \A i \in 1..Len(app.sent) : app.sent[i].inflightBefore = 0

\* C24: a saveMemo that has failed at one of its steps (a mkdir, the write of
\* the staging file, the rename) has left memo.json as it was when the call
\* began: the same content, or absent as before.
Thm_C24 ==
  \A s \in Savers :
    savers[s].pc = "failed" => FileAt(fs, MemoPath) = savers[s].before

\* a call has failed with the staging file partly written, over a stored record
Witness_C24 ==
  \E s \in Savers :
    /\ savers[s].pc = "failed"
    /\ savers[s].before.exists
    /\ savers[s].off > 0 /\ savers[s].off < Len(savers[s].buf)
    /\ TempPath \in DOMAIN fs /\ fs[TempPath] # savers[s].buf

\* C25: when saveMemo(d) has succeeded, memo.json holds exactly the record
\* {version: 1, updatedAt, doc: d} whose updatedAt is the one returned to the
\* caller; nothing of the content it replaced remains.
Thm_C25 ==
  \A s \in Savers :
    savers[s].pc = "done" =>
      /\ Get(savers[s].res.value, "ok") = [lit |-> "true"]
      /\ "str" \in DOMAIN Get(savers[s].res.value, "updatedAt")
      /\ MemoPath \in DOMAIN fs
      /\ JSONParse(fs[MemoPath]) =
           [ok |-> TRUE,
            val |-> MemoRecordOf(Get(savers[s].res.value, "updatedAt").str, savers[s].doc)]

\* a save has succeeded over a stored record of another document, written at
\* an earlier time
Witness_C25 ==
  \E s \in Savers :
    /\ savers[s].pc = "done"
    /\ savers[s].before.exists
    /\ CompleteRecordText(savers[s].before.data)
    /\ Get(JSONParse(savers[s].before.data).val, "doc") # savers[s].doc
    /\ Get(JSONParse(savers[s].before.data).val, "updatedAt") #
         Get(savers[s].res.value, "updatedAt")

\* C26: with saveImage, saveMemo, loadMemo and image requests interleaved, two
\* saveImage calls in flight never hold the same identifier, a call's
\* identifier names a file that does not exist yet, the write stores exactly
\* the call's bytes, and no step of any operation changes or removes an image
\* file other than the one its own call is writing.
Thm_C26 ==
  [][/\ \A k1, k2 \in ImgSavers :
          (k1 # k2 /\ imgSaver'[k1].id # <<>> /\ imgSaver'[k2].id # <<>>) =>
            /\ imgSaver'[k1].id # imgSaver'[k2].id
            /\ imgSaver'[k1].imagePath # imgSaver'[k2].imagePath
     /\ \A k \in ImgSavers :
          (imgSaver[k].pc = "mkdirImages" /\ imgSaver'[k].pc = "open") =>
            /\ imgSaver'[k].id \notin usedIds
            /\ imgSaver'[k].imagePath \notin DOMAIN fs
     /\ \A k \in ImgSavers :
          (imgSaver[k].pc = "write" /\ imgSaver'[k].pc = "done") =>
            fs'[imgSaver[k].imagePath] = imgSaver[k].buffer
     /\ \A p \in DOMAIN fs :
          (/\ PathDirname(p) = ImagesDir
           /\ ~\E k \in ImgSavers : imgSaver[k].pc = "write" /\ imgSaver[k].imagePath = p) =>
            (p \in DOMAIN fs' /\ fs'[p] = fs[p])
    ]_vars

\* two saveImage calls that ran together have stored different bytes, and a
\* saveMemo has replaced memo.json since
Witness_C26 ==
  /\ \A k \in ImgSavers : imgSaver[k].pc = "done"
  /\ imgSaver[1].buffer # imgSaver[2].buffer
  /\ fs[imgSaver[1].imagePath] = imgSaver[1].buffer
  /\ fs[imgSaver[2].imagePath] = imgSaver[2].buffer
  /\ lastSaved.valid /\ MemoPath \in DOMAIN fs

\* C27: the identifier saveImage draws passes isValidImageId, and a request
\* for the src a successful call has returned, memo-image://<id>, is answered
\* from that call's file: 200, image/png, exactly the bytes saved.
Thm_C27 ==
  /\ \A id \in usedIds : isValidImageId(id)
  /\ \A k \in ImgSavers :
       imgSaver[k].pc = "done" =>
         /\ imgSaver[k].res.value.src = <<Scheme, "/", "/">> \o imgSaver[k].id
         /\ imageIdFromRequestUrl(imgSaver[k].res.value.src) =
              [isNull |-> FALSE, id |-> imgSaver[k].id]
         /\ imagePathForId(storagePaths, imgSaver[k].id) =
              [ok |-> TRUE, path |-> imgSaver[k].imagePath]
         /\ (req.pc = "done" /\ req.url = imgSaver[k].res.value.src) =>
              /\ req.status = 200
              /\ req.contentType = "image/png"
              /\ req.imagePath = imgSaver[k].imagePath
              /\ req.body = imgSaver[k].buffer

\* the image saved under the identifier with a hyphen has been requested and
\* served
Witness_C27 ==
  \E k \in ImgSavers :
    /\ imgSaver[k].pc = "done"
    /\ imgSaver[k].id = <<"a", "-", "a">>
    /\ req.pc = "done" /\ req.url = imgSaver[k].res.value.src
    /\ req.status = 200 /\ req.body = imgSaver[k].buffer

\* C28: a step of loadMemo leaves every file as it is, except the one rename
\* of memo.json to the quarantine name; it creates no file, writes nothing at
\* memo.json, and adds no directory other than the root and images
\* directories. A call that found no file returns the default record and
\* memo.json is still absent when it returns with no save beside it.
Thm_C28 ==
  [][\A l \in Loaders :
       loaders'[l] # loaders[l] =>
         /\ \/ fs' = fs
            \/ /\ loaders[l].pc = "quarantine" /\ loaders'[l].moved
               /\ MemoPath \in DOMAIN fs
               /\ fs' = FsRename(fs, MemoPath, loaders[l].backupPath)
               /\ PathDirname(loaders[l].backupPath) = RootDir
         /\ MemoPath \in DOMAIN fs' => (MemoPath \in DOMAIN fs /\ fs'[MemoPath] = fs[MemoPath])
         /\ dirs \subseteq dirs' /\ dirs' \ dirs \subseteq {RootDir, ImagesDir}
         /\ (loaders'[l].pc = "done" /\ loaders'[l].outcome = "absent") =>
              /\ IsDefaultRecord(loaders'[l].res.value)
              /\ ~AnySaveActive => MemoPath \notin DOMAIN fs'
    ]_vars

\* a call that found no memo.json has returned the default record, and no
\* file exists
Witness_C28 ==
  \E l \in Loaders :
    /\ loaders[l].pc = "done" /\ loaders[l].outcome = "absent"
    /\ IsDefaultRecord(loaders[l].res.value)
    /\ DOMAIN fs = {}
    /\ dirs = {RootDir, ImagesDir}

\* C29: once a saveMemo, loadMemo or saveImage has succeeded, the root and the
\* images directory exist; a step that creates a directory changes no file,
\* removes no directory, and goes through whether or not the directory exists
\* already and whether or not another operation is creating it too.
Thm_C29 ==
  [][/\ \A s \in Savers : savers'[s].pc = "done" => {RootDir, ImagesDir} \subseteq dirs'
     /\ \A l \in Loaders : loaders'[l].pc = "done" => {RootDir, ImagesDir} \subseteq dirs'
     /\ \A k \in ImgSavers : imgSaver'[k].pc = "done" => {RootDir, ImagesDir} \subseteq dirs'
     /\ dirs \subseteq dirs'
     /\ dirs' # dirs => fs' = fs
     /\ \A s \in Savers :
          (savers[s].pc \in {"mkdirRoot", "mkdirImages"} /\ savers'[s] # savers[s]) =>
            /\ savers'[s].pc = (IF savers[s].pc = "mkdirRoot" THEN "mkdirImages" ELSE "open")
            /\ fs' = fs
            /\ dirs' = dirs \cup {IF savers[s].pc = "mkdirRoot" THEN RootDir ELSE ImagesDir}
     /\ \A l \in Loaders :
          (loaders[l].pc \in {"mkdirRoot", "mkdirImages"} /\ loaders'[l] # loaders[l]) =>
            /\ loaders'[l].pc = (IF loaders[l].pc = "mkdirRoot" THEN "mkdirImages" ELSE "read")
            /\ fs' = fs
            /\ dirs' = dirs \cup {IF loaders[l].pc = "mkdirRoot" THEN RootDir ELSE ImagesDir}
     /\ \A k \in ImgSavers :
          (imgSaver[k].pc \in {"mkdirRoot", "mkdirImages"} /\ imgSaver'[k] # imgSaver[k]) =>
            /\ imgSaver'[k].pc = (IF imgSaver[k].pc = "mkdirRoot" THEN "mkdirImages" ELSE "open")
            /\ fs' = fs
            /\ dirs' = dirs \cup {IF imgSaver[k].pc = "mkdirRoot" THEN RootDir ELSE ImagesDir}
    ]_vars

\* a saveMemo has succeeded whose mkdir calls ran while a loadMemo and a
\* saveImage were creating the same directories, files being present
Witness_C29 ==
  /\ \E s \in Savers : savers[s].pc = "done"
  /\ \E l \in Loaders : loaders[l].pc = "mkdirImages"
  /\ \E k \in ImgSavers : imgSaver[k].pc = "mkdirRoot"
  /\ dirs = {RootDir, ImagesDir}
  /\ MemoPath \in DOMAIN fs

\* version a is parsable, and so is b, and a is the greater as a triple of
\* numbers
NewerVersion(a, b) ==
  LET x == parseVersion(a).parts
      y == parseVersion(b).parts
  IN /\ parseVersion(a).ok /\ parseVersion(b).ok
     /\ \/ x[1] > y[1]
        \/ x[1] = y[1] /\ x[2] > y[2]
        \/ x[1] = y[1] /\ x[2] = y[2] /\ x[3] > y[3]

SettledStates == {"available", "not_available", "error"}

\* C30: in a build that is not packaged the update status stays 'idle' and no
\* request is made; in a packaged build it becomes 'checking' with the one
\* request, then, whatever the response, exactly one of 'available',
\* 'not_available' and 'error', where it stays, and it does not stay
\* 'checking'; it is 'available' only when the latest version is greater than
\* the current one, and releaseUrl is set in no other state.
Thm_C30 ==
  /\ [](~upd.isPackaged =>
          /\ upd.latestUpdateStatus.state = "idle"
          /\ upd.requests = 0 /\ upd.sent = <<>>)
  /\ [](upd.isPackaged =>
          /\ upd.pc = "start" => upd.latestUpdateStatus.state = "idle" /\ upd.requests = 0
          /\ upd.pc \in {"fetch", "json"} =>
               upd.latestUpdateStatus.state = "checking" /\ upd.requests = 1
          /\ upd.pc = "done" =>
               upd.latestUpdateStatus.state \in SettledStates /\ upd.requests = 1)
  /\ [](upd.latestUpdateStatus.state = "available" =>
          NewerVersion(upd.latestUpdateStatus.latestVersion.str, upd.version))
  /\ [](upd.latestUpdateStatus.releaseUrl # JsUndefined =>
          upd.latestUpdateStatus.state = "available")
  /\ [][/\ upd.latestUpdateStatus.state \in SettledStates =>
            upd'.latestUpdateStatus = upd.latestUpdateStatus
        /\ upd'.latestUpdateStatus.state # upd.latestUpdateStatus.state =>
            \/ upd.latestUpdateStatus.state = "idle" /\
               upd'.latestUpdateStatus.state = "checking"
            \/ upd.latestUpdateStatus.state = "checking" /\
               upd'.latestUpdateStatus.state \in SettledStates]_vars
  /\ (upd.latestUpdateStatus.state = "checking") ~>
       (upd.latestUpdateStatus.state \in SettledStates)

\* release 1.10.0 has been found newer than the running 1.9.0
Witness_C30 ==
  /\ upd.isPackaged /\ upd.pc = "done"
  /\ upd.version = <<"1", ".", "9", ".", "0">>
  /\ upd.latestUpdateStatus.state = "available"
  /\ upd.latestUpdateStatus.latestVersion = JsStr(<<"1", ".", "1", "0", ".", "0">>)
  /\ upd.latestUpdateStatus.releaseUrl # JsUndefined
  /\ Len(upd.sent) = 2

====
